---- MODULE Spec2Model ----
(***************************************************************************)
(* kubectl-mc: multi-cluster fan-out execution and aggregation.            *)
(*                                                                         *)
(* The module models                                                       *)
(*   - the executor round Executor.Get (pkg/executor): one goroutine per   *)
(*     cluster, a counting semaphore, a buffered result channel, a         *)
(*     WaitGroup, the closer goroutine and the collector loop;             *)
(*   - AggregatedResults / AddResult (pkg/executor/types.go);              *)
(*   - the kubeconfig mapping Manager's lookup (pkg/kubeconfig);           *)
(*   - the get and describe commands (cmd) with the table and describe     *)
(*     aggregators (pkg/aggregator).                                       *)
(*                                                                         *)
(* Strings that are compared or matched (cluster names, namespaces,        *)
(* object names, patterns) are sequences of one-character strings.         *)
(***************************************************************************)
EXTENDS Integers, Sequences, FiniteSets, TLC

\* ------------------------------------------------------------------ bounds

\* Largest number of clusters submitted to one round.
MaxClusters == 3

\* Largest ExecutorConfig.MaxConcurrency a directly called round is given.
MaxConc == 2

\* ----------------------------------------------------------------- strings

\* The characters of the model, in byte order.
Alphabet == <<"*", "-", "?", "[", "\\", "]", "^", "a", "b", "z">>

CharCode(ch) == CHOOSE i \in 1..Len(Alphabet) : Alphabet[i] = ch

\* Go's s < t on strings: lexicographic byte order.
RECURSIVE StrLess(_, _)
StrLess(s, t) ==
    IF t = <<>> THEN FALSE
    ELSE IF s = <<>> THEN TRUE
    ELSE IF Head(s) # Head(t) THEN CharCode(Head(s)) < CharCode(Head(t))
    ELSE StrLess(Tail(s), Tail(t))

\* ------------------------------------------------------------ environment

\* The clusters a hub can know, in the order the registry lists them.
ClusterUniverse == << <<"a", "b">>, <<"z">>, <<"a", "a">>, <<"b">> >>

\* discovery.ClusterInfo, reduced to the field the round reads.
ClusterInfo(n) == [Name |-> n]

\* The kubeconfig context the setup flow maps cluster n to.
ContextOf(n) == <<"-">> \o n

\* What stands behind a kubeconfig context:
\*   "noconfig"  no usable REST config (DynamicClient fails)
\*   "err"       the API server answers the query with an error
\*   "ok"        the API server answers the query
\* An answer takes any time: a query that is still in flight when its
\* context's deadline passes is the hanging cluster.
Behaviours == {"noconfig", "err", "ok"}

\* How a cluster stands at the start of a round: unmapped, or mapped to a
\* context with one of the behaviours.
ClusterStates == {"unmapped"} \cup Behaviours

\* The objects cluster n holds (metadata.namespace, metadata.name).
Item(ns, nm) == [namespace |-> ns, name |-> nm]

RemoteItems(n) ==
    IF n = <<"a", "b">> THEN << Item(<<"b">>, <<"z">>), Item(<<"a">>, <<"b">>) >>
    ELSE IF n = <<"z">> THEN << Item(<<"a">>, <<"a">>) >>
    ELSE IF n = <<"a", "a">> THEN << >>
    ELSE << Item(<<"b">>, <<"a">>) >>

\* ------------------------------------------------------------- data model

Nil == "nil"

ErrUnmapped == "no kubeconfig context mapped for cluster"
ErrDynamicClient == "failed to create dynamic client"
ErrResolveGVR == "failed to resolve resource type"
ErrGet == "failed to get resource"
ErrList == "failed to list resources"
\* a query error whose cause is the context (canceled / deadline exceeded)
ErrGetCtx == "failed to get resource: context done"
ErrListCtx == "failed to list resources: context done"

\* executor.ClusterResult (Output is the describe narrative)
ClusterResult(n, ok, items, out, err) ==
    [ClusterName |-> n, Success |-> ok, Items |-> items, Output |-> out, Error |-> err]

\* kubeconfig.ClusterMapping
ClusterMapping(n, c, ns) == [Name |-> n, Context |-> c, Namespace |-> ns]

\* executor.DefaultConfig
DefaultMaxConcurrency == 10
DefaultTimeoutSeconds == 30

DefaultConfig ==
    [MaxConcurrency |-> DefaultMaxConcurrency,
     TimeoutSeconds |-> DefaultTimeoutSeconds,
     ContinueOnError |-> TRUE]

\* executor.NewAggregatedResults
NewAggregatedResults(cs) ==
    [Results |-> <<>>,
     Summary |-> [Total |-> Len(cs), Successful |-> 0, Failed |-> 0,
                  Errors |-> [x \in {} |-> Nil]]]

\* Summary.Errors[name] = err on a Go map
MapPut(m, k, v) == [x \in (DOMAIN m) \cup {k} |-> IF x = k THEN v ELSE m[x]]

\* A faulty AddResult that counts a failed result without keeping it.
AddResultDropsFailed(ar, result) ==
    IF result.Success
    THEN [Results |-> Append(ar.Results, result),
          Summary |-> [ar.Summary EXCEPT !.Successful = @ + 1]]
    ELSE [Results |-> ar.Results,
          Summary |-> [ar.Summary EXCEPT
                         !.Failed = @ + 1,
                         !.Errors = IF result.Error # Nil
                                    THEN MapPut(@, result.ClusterName, result.Error)
                                    ELSE @]]

\* A faulty AddResult that counts a failed result without recording its error.
AddResultForgetsError(ar, result) ==
    [Results |-> Append(ar.Results, result),
     Summary |->
        IF result.Success
        THEN [ar.Summary EXCEPT !.Successful = @ + 1]
        ELSE [ar.Summary EXCEPT !.Failed = @ + 1]]

\* A faulty AddResult that counts every result as successful and a failed one
\* as failed too.
AddResultCountsBoth(ar, result) ==
    [Results |-> Append(ar.Results, result),
     Summary |->
        IF result.Success
        THEN [ar.Summary EXCEPT !.Successful = @ + 1]
        ELSE [ar.Summary EXCEPT
                !.Successful = @ + 1,
                !.Failed = @ + 1,
                !.Errors = IF result.Error # Nil
                           THEN MapPut(@, result.ClusterName, result.Error)
                           ELSE @]]

\* AggregatedResults.AddResult
AddResult(ar, result) ==
    [Results |-> Append(ar.Results, result),
     Summary |->
        IF result.Success
        THEN [ar.Summary EXCEPT !.Successful = @ + 1]
        ELSE [ar.Summary EXCEPT
                !.Failed = @ + 1,
                !.Errors = IF result.Error # Nil
                           THEN MapPut(@, result.ClusterName, result.Error)
                           ELSE @]]

\* Manager.GetContext: the first mapping with the name, or an error.
RECURSIVE GetContext(_, _)
GetContext(ms, clusterName) ==
    IF ms = <<>> THEN [context |-> <<>>, err |-> "no context mapping found"]
    ELSE IF Head(ms).Name = clusterName
         THEN [context |-> Head(ms).Context, err |-> Nil]
         ELSE GetContext(Tail(ms), clusterName)

\* A ClusterMapping as yaml.Marshal writes it: namespace is left out when
\* empty (omitempty).
MarshalMapping(m) ==
    IF m.Namespace = <<>> THEN [name |-> m.Name, context |-> m.Context]
    ELSE [name |-> m.Name, context |-> m.Context, namespace |-> m.Namespace]

\* A document entry as yaml.Unmarshal reads it: an absent key is the zero value.
UnmarshalMapping(e) ==
    ClusterMapping(e.name, e.context,
                   IF "namespace" \in DOMAIN e THEN e.namespace ELSE <<>>)

\* The clusters list of the config document.
Marshal(ms) == [i \in DOMAIN ms |-> MarshalMapping(ms[i])]
Unmarshal(doc) == [i \in DOMAIN doc |-> UnmarshalMapping(doc[i])]

ErrNotExist == "file does not exist"
ErrParse == "failed to parse mapping config"
ErrWrite == "failed to write config file"

\* Manager.load: the clusters read from the file, or the error.
load(file) ==
    IF file.status = "missing" THEN [clusters |-> <<>>, err |-> ErrNotExist]
    ELSE IF file.status = "invalid" THEN [clusters |-> <<>>, err |-> ErrParse]
    ELSE [clusters |-> Unmarshal(file.clusters), err |-> Nil]

\* NewManager: a missing file is an empty config, any other load error is
\* returned.
NewManager(file) ==
    IF load(file).err = ErrNotExist THEN [clusters |-> <<>>, err |-> Nil]
    ELSE load(file)

\* What os.WriteFile can leave behind:
\*   "written"    the file holds the new document (no error)
\*   "untouched"  the file could not be created or opened, it is as before
\*   "truncated"  the file was opened (O_TRUNC) and nothing was written
\*   "partial"    the write stopped part-way: the file does not parse
WriteOutcomes == {"written", "untouched", "truncated", "partial"}

\* Manager.save: the file after it, and the error returned.
save(ms, file, outcome) ==
    IF outcome = "written"
    THEN [file |-> [status |-> "ok", clusters |-> Marshal(ms)], err |-> Nil]
    ELSE IF outcome = "untouched" THEN [file |-> file, err |-> ErrWrite]
    ELSE IF outcome = "truncated"
    THEN [file |-> [status |-> "ok", clusters |-> <<>>], err |-> ErrWrite]
    ELSE [file |-> [status |-> "invalid", clusters |-> <<>>], err |-> ErrWrite]

\* A faulty update that appends a mapping whether or not the name is mapped.
SetMappingAppends(ms, clusterName, context, namespace) ==
    Append(ms, ClusterMapping(clusterName, context, namespace))

\* Manager.SetMapping on config.Clusters: the first mapping with the name is
\* overwritten, a new one is appended when there is none.
SetMapping(ms, clusterName, context, namespace) ==
    IF \E i \in DOMAIN ms : ms[i].Name = clusterName
    THEN LET first == CHOOSE i \in DOMAIN ms :
                         /\ ms[i].Name = clusterName
                         /\ \A j \in 1..(i - 1) : ms[j].Name # clusterName
         IN  [ms EXCEPT ![first] = ClusterMapping(clusterName, context, namespace)]
    ELSE Append(ms, ClusterMapping(clusterName, context, namespace))

\* Manager.ListMappings
ListMappings(ms) == ms

\* Executor.resolveGVR: the table of known resource tokens.
commonResources ==
    {"pods", "pod", "services", "service", "deployments", "deployment",
     "configmaps", "configmap", "secrets", "secret", "namespaces", "namespace"}

resolveGVR(resource) ==
    IF resource \in commonResources
    THEN [gvr |-> resource, err |-> Nil]
    ELSE [gvr |-> "", err |-> "unknown resource type"]

\* --------------------------------------------------------- cluster selector

\* path/filepath.Match as matchesAny calls it (Unix; no name holds a '/').

RECURSIVE StripStars(_)
StripStars(p) ==
    IF p # <<>> /\ Head(p) = "*" THEN StripStars(Tail(p)) ELSE p

\* scanChunk's scan: the length of the chunk at the front of p.
RECURSIVE ScanEnd(_, _, _)
ScanEnd(p, i, inrange) ==
    IF i >= Len(p) THEN Len(p)
    ELSE IF p[i + 1] = "\\" THEN ScanEnd(p, IF i + 1 < Len(p) THEN i + 2 ELSE i + 1, inrange)
    ELSE IF p[i + 1] = "[" THEN ScanEnd(p, i + 1, TRUE)
    ELSE IF p[i + 1] = "]" THEN ScanEnd(p, i + 1, FALSE)
    ELSE IF p[i + 1] = "*" /\ ~inrange THEN i
    ELSE ScanEnd(p, i + 1, inrange)

scanChunk(pattern) ==
    LET p == StripStars(pattern)
        n == ScanEnd(p, 0, FALSE)
    IN  [star |-> pattern # <<>> /\ Head(pattern) = "*",
         chunk |-> SubSeq(p, 1, n),
         rest |-> SubSeq(p, n + 1, Len(p))]

\* getEsc: the next character of a class, as [r, chunk, err].
getEsc(chunk) ==
    IF chunk = <<>> \/ Head(chunk) = "-" \/ Head(chunk) = "]"
    THEN [r |-> "", chunk |-> chunk, err |-> TRUE]
    ELSE LET c == IF Head(chunk) = "\\" THEN Tail(chunk) ELSE chunk
         IN  IF c = <<>> THEN [r |-> "", chunk |-> c, err |-> TRUE]
             ELSE [r |-> Head(c), chunk |-> Tail(c), err |-> Tail(c) = <<>>]

\* The ranges of a character class up to its closing bracket, matched against
\* the character r ("" once the match has failed), as [chunk, match, err].
RECURSIVE classRanges(_, _, _, _)
classRanges(chunk, r, nrange, match) ==
    IF chunk # <<>> /\ Head(chunk) = "]" /\ nrange > 0
    THEN [chunk |-> Tail(chunk), match |-> match, err |-> FALSE]
    ELSE LET lo == getEsc(chunk)
         IN  IF lo.err THEN [chunk |-> <<>>, match |-> FALSE, err |-> TRUE]
             ELSE LET hi == IF Head(lo.chunk) = "-" THEN getEsc(Tail(lo.chunk))
                            ELSE lo
                  IN  IF hi.err THEN [chunk |-> <<>>, match |-> FALSE, err |-> TRUE]
                      ELSE classRanges(hi.chunk, r, nrange + 1,
                             match \/ (r # "" /\ CharCode(lo.r) <= CharCode(r)
                                              /\ CharCode(r) <= CharCode(hi.r)))

\* matchChunk: the chunk against the front of s, as [rest, ok, err]. After the
\* match has failed the chunk is still read to its end for its well-formedness.
RECURSIVE matchChunkFrom(_, _, _)
matchChunkFrom(chunk, s, wasFailed) ==
    IF chunk = <<>>
    THEN IF wasFailed THEN [rest |-> <<>>, ok |-> FALSE, err |-> FALSE]
         ELSE [rest |-> s, ok |-> TRUE, err |-> FALSE]
    ELSE LET failed == wasFailed \/ s = <<>>
             bad == [rest |-> <<>>, ok |-> FALSE, err |-> TRUE]
         IN  IF Head(chunk) = "["
             THEN LET r == IF failed THEN "" ELSE Head(s)
                      s1 == IF failed THEN s ELSE Tail(s)
                      c1 == Tail(chunk)
                      negated == c1 # <<>> /\ Head(c1) = "^"
                      c2 == IF negated THEN Tail(c1) ELSE c1
                      rs == classRanges(c2, r, 0, FALSE)
                  IN  IF rs.err THEN bad
                      ELSE matchChunkFrom(rs.chunk, s1, failed \/ (rs.match = negated))
             ELSE IF Head(chunk) = "?"
             THEN matchChunkFrom(Tail(chunk), IF failed THEN s ELSE Tail(s), failed)
             ELSE LET c == IF Head(chunk) = "\\" THEN Tail(chunk) ELSE chunk
                  IN  IF c = <<>> THEN bad
                      ELSE matchChunkFrom(Tail(c), IF failed THEN s ELSE Tail(s),
                                          failed \/ Head(c) # Head(s))

matchChunk(chunk, s) == matchChunkFrom(chunk, s, FALSE)

\* The check Match makes before it returns false with no error: the rest of
\* the pattern is malformed.
RECURSIVE restErr(_)
restErr(pattern) ==
    IF pattern = <<>> THEN FALSE
    ELSE LET sc == scanChunk(pattern)
         IN  matchChunk(sc.chunk, <<>>).err \/ restErr(sc.rest)

\* filepath.Match, as [matched, err]. (Names hold no path separator: a star
\* is never stopped by one.)
RECURSIVE Match(_, _)
RECURSIVE matchAfterStar(_, _, _, _)

\* After a star: the first i for which the chunk matches name[i+1:].
matchAfterStar(chunk, rest, name, i) ==
    IF i >= Len(name) THEN [matched |-> FALSE, err |-> restErr(rest)]
    ELSE LET t == matchChunk(chunk, SubSeq(name, i + 2, Len(name)))
         IN  IF t.ok
             THEN IF rest = <<>> /\ t.rest # <<>>
                  THEN matchAfterStar(chunk, rest, name, i + 1)
                  ELSE Match(rest, t.rest)
             ELSE IF t.err THEN [matched |-> FALSE, err |-> TRUE]
             ELSE matchAfterStar(chunk, rest, name, i + 1)

Match(pattern, name) ==
    IF pattern = <<>> THEN [matched |-> name = <<>>, err |-> FALSE]
    ELSE LET sc == scanChunk(pattern)
             t == matchChunk(sc.chunk, name)
         IN  IF sc.star /\ sc.chunk = <<>> THEN [matched |-> TRUE, err |-> FALSE]
             ELSE IF t.ok /\ (t.rest = <<>> \/ sc.rest # <<>>) THEN Match(sc.rest, t.rest)
             ELSE IF t.err THEN [matched |-> FALSE, err |-> TRUE]
             ELSE IF sc.star THEN matchAfterStar(sc.chunk, sc.rest, name, 0)
             ELSE [matched |-> FALSE, err |-> restErr(sc.rest)]

\* A faulty matchesAny that takes a malformed pattern for a match.
RECURSIVE matchesAnyOnBadPattern(_, _)
matchesAnyOnBadPattern(str, patterns) ==
    IF patterns = <<>> THEN FALSE
    ELSE IF str = Head(patterns) THEN TRUE
    ELSE IF Match(Head(patterns), str).err \/ Match(Head(patterns), str).matched THEN TRUE
    ELSE matchesAnyOnBadPattern(str, Tail(patterns))

\* matchesAny: the string equals a pattern, or a pattern glob-matches it.
RECURSIVE matchesAny(_, _)
matchesAny(str, patterns) ==
    IF patterns = <<>> THEN FALSE
    ELSE IF str = Head(patterns) THEN TRUE
    ELSE IF ~Match(Head(patterns), str).err /\ Match(Head(patterns), str).matched THEN TRUE
    ELSE matchesAny(str, Tail(patterns))

\* A faulty loop in which a match of the include list overrides the exclude list.
RECURSIVE filterLoopIncludeWins(_, _, _)
filterLoopIncludeWins(cs, inc, exc) ==
    IF cs = <<>> THEN <<>>
    ELSE IF inc # <<>> /\ matchesAny(Head(cs).Name, inc)
         THEN <<Head(cs)>> \o filterLoopIncludeWins(Tail(cs), inc, exc)
    ELSE IF inc = <<>> /\ ~matchesAny(Head(cs).Name, exc)
         THEN <<Head(cs)>> \o filterLoopIncludeWins(Tail(cs), inc, exc)
         ELSE filterLoopIncludeWins(Tail(cs), inc, exc)

RECURSIVE filterLoop(_, _, _)
filterLoop(cs, inc, exc) ==
    IF cs = <<>> THEN <<>>
    ELSE IF matchesAny(Head(cs).Name, exc) THEN filterLoop(Tail(cs), inc, exc)
    ELSE IF inc = <<>> \/ matchesAny(Head(cs).Name, inc)
         THEN <<Head(cs)>> \o filterLoop(Tail(cs), inc, exc)
         ELSE filterLoop(Tail(cs), inc, exc)

\* A faulty filterClusters that loses the first cluster it selected.
filterClustersLosesFirst(cs, inc, exc) ==
    IF inc = <<>> /\ exc = <<>> THEN cs
    ELSE IF filterLoop(cs, inc, exc) = <<>> THEN <<>>
    ELSE Tail(filterLoop(cs, inc, exc))

\* filterClusters
filterClusters(cs, inc, exc) ==
    IF inc = <<>> /\ exc = <<>> THEN cs ELSE filterLoop(cs, inc, exc)

\* --------------------------------------------------------------- aggregators

\* aggregator.ItemWithCluster
ItemWithCluster(item, cluster) == [Item |-> item, Cluster |-> cluster]

RECURSIVE itemsOfResult(_, _)
itemsOfResult(items, cluster) ==
    IF items = <<>> THEN <<>>
    ELSE <<ItemWithCluster(Head(items), cluster)>> \o itemsOfResult(Tail(items), cluster)

\* A faulty collection loop that does not skip the failed results.
RECURSIVE collectItemsOfAll(_)
collectItemsOfAll(rs) ==
    IF rs = <<>> THEN <<>>
    ELSE itemsOfResult(Head(rs).Items, Head(rs).ClusterName) \o collectItemsOfAll(Tail(rs))

\* The collection loop of AggregateGetResults: the items of the successful
\* results, each with its cluster's name.
RECURSIVE collectItems(_)
collectItems(rs) ==
    IF rs = <<>> THEN <<>>
    ELSE IF ~Head(rs).Success THEN collectItems(Tail(rs))
    ELSE itemsOfResult(Head(rs).Items, Head(rs).ClusterName) \o collectItems(Tail(rs))

\* The comparison of AggregateGetResults: cluster, then namespace, then name.
itemLess(x, y) ==
    IF x.Cluster # y.Cluster THEN StrLess(x.Cluster, y.Cluster)
    ELSE IF x.Item.namespace # y.Item.namespace
         THEN StrLess(x.Item.namespace, y.Item.namespace)
         ELSE StrLess(x.Item.name, y.Item.name)

\* sort.Slice(allItems, ...): insertion into a sorted sequence. (The keys
\* compared are unique, so the order does not depend on the algorithm.)
RECURSIVE insertItem(_, _)
insertItem(x, sorted) ==
    IF sorted = <<>> THEN <<x>>
    ELSE IF itemLess(x, Head(sorted)) THEN <<x>> \o sorted
    ELSE <<Head(sorted)>> \o insertItem(x, Tail(sorted))

\* A faulty sort that leaves the items in the order collected.
sortItemsKeepsOrder(xs) == xs

RECURSIVE sortItems(_)
sortItems(xs) ==
    IF xs = <<>> THEN <<>> ELSE insertItem(Head(xs), sortItems(Tail(xs)))

\* The table format the resource type selects.
tableFormat(resourceType) ==
    IF resourceType \in {"pod", "pods"} THEN "pods"
    ELSE IF resourceType \in {"deployment", "deployments"} THEN "deployments"
    ELSE IF resourceType \in {"service", "services"} THEN "services"
    ELSE "generic"

Notice == [kind |-> "notice", text |-> "No resources found"]

RECURSIVE tableRows(_)
tableRows(items) ==
    IF items = <<>> THEN <<>>
    ELSE <<[kind |-> "row", cluster |-> Head(items).Cluster,
            namespace |-> Head(items).Item.namespace, name |-> Head(items).Item.name]>>
            \o tableRows(Tail(items))

\* A faulty AggregateGetResults that fails when it has nothing to show.
AggregateGetResultsFailsOnEmpty(ar, resourceType) ==
    LET allItems == collectItems(ar.Results)
    IN  IF allItems = <<>>
        THEN [out |-> <<>>, err |-> "no resources found in any cluster"]
        ELSE [out |-> <<[kind |-> "header", format |-> tableFormat(resourceType)]>>
                        \o tableRows(sortItems(allItems)),
              err |-> Nil]

\* TableAggregator.AggregateGetResults: what it writes, and the error it returns.
AggregateGetResults(ar, resourceType) ==
    LET allItems == collectItems(ar.Results)
    IN  IF allItems = <<>>
        THEN [out |-> <<Notice>>, err |-> Nil]
        ELSE [out |-> <<[kind |-> "header", format |-> tableFormat(resourceType)]>>
                        \o tableRows(sortItems(allItems)),
              err |-> Nil]

\* The comparison of AggregateDescribeResults: by cluster name.
resultLess(x, y) == StrLess(x.ClusterName, y.ClusterName)

\* sort.Slice(sortedResults, ...)
RECURSIVE insertResult(_, _)
insertResult(x, sorted) ==
    IF sorted = <<>> THEN <<x>>
    ELSE IF resultLess(x, Head(sorted)) THEN <<x>> \o sorted
    ELSE <<Head(sorted)>> \o insertResult(x, Tail(sorted))

\* A faulty sort that leaves the results in completion order.
sortResultsKeepsOrder(xs) == xs

RECURSIVE sortResults(_)
sortResults(xs) ==
    IF xs = <<>> THEN <<>> ELSE insertResult(Head(xs), sortResults(Tail(xs)))

\* The printing loop of AggregateDescribeResults over the sorted results: per
\* printed cluster the rule of "=" (the separator) when a block was printed
\* before, the header "CLUSTER: <name>", its underline of "-", the narrative.
RECURSIVE describeBlocks(_, _)
describeBlocks(rs, hasOutput) ==
    IF rs = <<>> THEN <<>>
    ELSE IF ~Head(rs).Success \/ Head(rs).Output = <<>>
    THEN describeBlocks(Tail(rs), hasOutput)
    ELSE (IF hasOutput THEN <<[kind |-> "separator"]>> ELSE <<>>)
            \o <<[kind |-> "cluster", cluster |-> Head(rs).ClusterName],
                 [kind |-> "underline"],
                 [kind |-> "output", text |-> Head(rs).Output]>>
            \o describeBlocks(Tail(rs), TRUE)

\* A faulty AggregateDescribeResults that fails whenever it printed nothing.
AggregateDescribeResultsFailsOnNoOutput(ar, resourceType) ==
    LET blocks == describeBlocks(sortResults(ar.Results), FALSE)
    IN  IF blocks # <<>> THEN [out |-> blocks, err |-> Nil]
        ELSE IF ar.Summary.Total > 0
        THEN [out |-> <<>>, err |-> "failed to describe resource in all clusters"]
        ELSE [out |-> <<Notice>>, err |-> Nil]

\* DescribeAggregator.AggregateDescribeResults: what it writes, and the error
\* it returns.
AggregateDescribeResults(ar, resourceType) ==
    LET blocks == describeBlocks(sortResults(ar.Results), FALSE)
    IN  IF blocks # <<>> THEN [out |-> blocks, err |-> Nil]
        ELSE IF ar.Summary.Total > 0 /\ ar.Summary.Failed = ar.Summary.Total
        THEN [out |-> <<>>, err |-> "failed to describe resource in all clusters"]
        ELSE [out |-> <<Notice>>, err |-> Nil]

\* ------------------------------------------------------------------- state

VARIABLES
    cmdPc,         \* the command: "none", "start", "discovered", "loaded",
                   \*   "round", "aggregated", "exit"
    hubClusters,   \* the ClusterProfiles of the hub: their names for a command,
                   \*   the unstructured records for the discovery (SpecDisc)
    discovered,    \* what ListClusters returned to the command
    include,       \* --clusters
    exclude,       \* --exclude
    mappingFile,   \* the mapping file on disk: its status and the mappings in it
    stdout,        \* what the command wrote to os.Stdout
    stderr,        \* what the command wrote to os.Stderr
    cmdErr,        \* the error the command's RunE returned
    exitCode,      \* the process exit code, -1 while the command runs
    ret,           \* what the last call of a library function returned
    hist,          \* per cluster name: the last SetMapping call made for it
                   \*   (on any Manager, and on the live one), whether it
                   \*   returned success and whether a later write damaged the file;
                   \*   in SpecMgrRace the mappings the Manager was loaded with
    op,            \* "get" or "describe": the executor method of the round
    query,         \* [resource, name, namespace] passed to the round
    config,        \* Executor.config
    mappings,      \* Manager.config.Clusters of the live Manager
    remote,        \* kubeconfig context -> behaviour of what is behind it
    ctxAtCall,     \* the caller's context was done when the round was called
    ctxCancelled,  \* the caller's context is done
    clusters,      \* the clusters argument of the round
    getPc,         \* "idle", "called", "collecting", "returned"
    results,       \* the round's AggregatedResults
    getErr,        \* the error the round returned
    resultChan,    \* the buffered result channel
    chanClosed,    \* close(resultChan) has run
    sem,           \* slots of the semaphore channel in use
    wg,            \* the WaitGroup counter
    pc,            \* per worker goroutine: its position (in SpecMgrRace: per
                   \*   goroutine calling the Manager)
    deadline,      \* per worker: its timeout context's deadline has passed
    wres,          \* per worker: the result getFromCluster returned (in
                   \*   SpecMgrRace: per goroutine, its call and its locals)
    invoked        \* per worker: the client calls made for its cluster

roundVars == <<clusters, getPc, results, getErr, resultChan, chanClosed,
               sem, wg, pc, deadline, wres, invoked>>
envVars == <<op, query, config, mappings, remote, ctxAtCall>>
cmdVars == <<cmdPc, hubClusters, discovered, include, exclude, mappingFile,
             stdout, stderr, cmdErr, exitCode, ret, hist>>
vars == <<cmdVars, envVars, ctxCancelled, roundVars>>

Workers == DOMAIN pc

NoResult == ClusterResult(<<>>, FALSE, <<>>, <<>>, Nil)

\* ------------------------------------------------------- the executor round

\* Executor.Get up to the collector loop: the results, the channel, the
\* semaphore, and one goroutine per cluster, each counted in the WaitGroup
\* before it starts.
GetSpawn ==
    /\ getPc = "called"
    /\ results' = NewAggregatedResults(clusters)
    /\ resultChan' = <<>>
    /\ chanClosed' = FALSE
    /\ sem' = 0
    /\ wg' = Len(clusters)
    /\ pc' = [i \in 1..Len(clusters) |-> "spawned"]
    /\ deadline' = [i \in 1..Len(clusters) |-> FALSE]
    /\ wres' = [i \in 1..Len(clusters) |-> NoResult]
    /\ invoked' = [i \in 1..Len(clusters) |-> {}]
    /\ getPc' = "collecting"
    /\ UNCHANGED <<cmdVars, envVars, ctxCancelled, clusters, getErr>>

\* A faulty semaphore that admits one worker too many.
MayAcquireOneMore(held, limit) == held <= limit

\* A faulty semaphore made one slot smaller than MaxConcurrency.
MayAcquireOneLess(held, limit) == held < limit - 1

\* sem <- struct{}{}: a slot is free while fewer than MaxConcurrency are held.
MayAcquire(held, limit) == held < limit

\* A faulty timeout context derived from a fresh background context: the
\* caller's cancellation does not reach it.
CtxDoneDetached(i) == deadline[i]

\* The worker's context is done: the caller's is, or its own deadline passed.
CtxDone(i) == ctxCancelled \/ deadline[i]

\* A faulty getFromCluster that drops the lookup error and goes on with the
\* empty context name (the current context of the kubeconfig).
PrepareIgnoringLookup(ms, rem, q, cluster) ==
    LET result == ClusterResult(cluster.Name, FALSE, <<>>, <<>>, Nil)
        got == GetContext(ms, cluster.Name)
        gvr == resolveGVR(q.resource)
    IN  IF got.err = Nil /\ rem[got.context] = "noconfig"
        THEN [result |-> [result EXCEPT !.Error = ErrDynamicClient],
              calls |-> {"NewFactory", "DynamicClient"}, query |-> FALSE]
        ELSE IF gvr.err # Nil
        THEN [result |-> [result EXCEPT !.Error = ErrResolveGVR],
              calls |-> {"NewFactory", "DynamicClient", "DiscoveryClient"},
              query |-> FALSE]
        ELSE [result |-> result,
              calls |-> {"NewFactory", "DynamicClient", "DiscoveryClient",
                         IF q.name # <<>> THEN "Get" ELSE "List"},
              query |-> TRUE]

\* getFromCluster up to the query call: what it does before the query, as
\*   [result, calls, query]  (query: the Get/List call is now in flight).
Prepare(ms, rem, q, cluster) ==
    LET result == ClusterResult(cluster.Name, FALSE, <<>>, <<>>, Nil)
        got == GetContext(ms, cluster.Name)
        gvr == resolveGVR(q.resource)
    IN  IF got.err # Nil
        THEN [result |-> [result EXCEPT !.Error = ErrUnmapped],
              calls |-> {}, query |-> FALSE]
        ELSE IF rem[got.context] = "noconfig"
        THEN [result |-> [result EXCEPT !.Error = ErrDynamicClient],
              calls |-> {"NewFactory", "DynamicClient"}, query |-> FALSE]
        ELSE IF gvr.err # Nil
        THEN [result |-> [result EXCEPT !.Error = ErrResolveGVR],
              calls |-> {"NewFactory", "DynamicClient", "DiscoveryClient"},
              query |-> FALSE]
        ELSE [result |-> result,
              calls |-> {"NewFactory", "DynamicClient", "DiscoveryClient",
                         IF q.name # <<>> THEN "Get" ELSE "List"},
              query |-> TRUE]

\* The worker takes a slot, derives its timeout context and runs
\* getFromCluster up to the query call (these steps touch nothing shared but
\* the semaphore). It then waits for the query, or holds a failed result.
Acquire(i) ==
    /\ pc[i] = "spawned"
    /\ MayAcquire(sem, config.MaxConcurrency)
    /\ sem' = sem + 1
    /\ LET p == Prepare(mappings, remote, query, clusters[i])
       IN  /\ wres' = [wres EXCEPT ![i] = p.result]
           /\ invoked' = [invoked EXCEPT ![i] = p.calls]
           /\ pc' = [pc EXCEPT ![i] = IF p.query THEN "querying" ELSE "finished"]
    /\ UNCHANGED <<cmdVars, envVars, ctxCancelled, clusters, getPc, results, getErr,
                   resultChan, chanClosed, wg, deadline>>

\* The objects a query of cluster n answers with: the named one, or all.
RECURSIVE SelectName(_, _)
SelectName(items, nm) ==
    IF items = <<>> THEN <<>>
    ELSE IF Head(items).name = nm THEN <<Head(items)>>
    ELSE SelectName(Tail(items), nm)

\* A faulty query that keeps what the cluster had answered when its context
\* ended, next to the error.
QueryResultKeepsPartial(result, q, behaviour, done) ==
    IF q.name # <<>>
    THEN IF done THEN [result EXCEPT !.Error = ErrGetCtx]
         ELSE IF behaviour = "ok" /\ SelectName(RemoteItems(result.ClusterName), q.name) # <<>>
         THEN [result EXCEPT !.Items = SelectName(RemoteItems(result.ClusterName), q.name),
                             !.Success = TRUE]
         ELSE [result EXCEPT !.Error = ErrGet]
    ELSE IF done THEN [result EXCEPT !.Error = ErrListCtx,
                                     !.Items = RemoteItems(result.ClusterName)]
         ELSE IF behaviour = "ok"
         THEN [result EXCEPT !.Items = RemoteItems(result.ClusterName),
                             !.Success = TRUE]
         ELSE [result EXCEPT !.Error = ErrList]

\* getFromCluster from the query's answer on: the result it returns.
\*   done: the worker's context is done; behaviour: what the cluster does.
QueryResult(result, q, behaviour, done) ==
    IF q.name # <<>>
    THEN \* resourceInterface.Get
         IF done THEN [result EXCEPT !.Error = ErrGetCtx]
         ELSE IF behaviour = "ok" /\ SelectName(RemoteItems(result.ClusterName), q.name) # <<>>
         THEN [result EXCEPT !.Items = SelectName(RemoteItems(result.ClusterName), q.name),
                             !.Success = TRUE]
         ELSE [result EXCEPT !.Error = ErrGet]
    ELSE \* resourceInterface.List
         IF done THEN [result EXCEPT !.Error = ErrListCtx]
         ELSE IF behaviour = "ok"
         THEN [result EXCEPT !.Items = RemoteItems(result.ClusterName),
                             !.Success = TRUE]
         ELSE [result EXCEPT !.Error = ErrList]

ErrDescribe == "failed to describe resource"
ErrDescribeCtx == "failed to describe resource: context done"

\* The describe round's counterpart of QueryResult: the narrative of the
\* objects in scope (empty when there is none) instead of the items.
DescribeResult(result, q, behaviour, done) ==
    LET found == IF q.name # <<>>
                 THEN SelectName(RemoteItems(result.ClusterName), q.name)
                 ELSE RemoteItems(result.ClusterName)
    IN  IF done THEN [result EXCEPT !.Error = ErrDescribeCtx]
        ELSE IF behaviour = "ok" /\ (q.name = <<>> \/ found # <<>>)
        THEN [result EXCEPT !.Output = found, !.Success = TRUE]
        ELSE [result EXCEPT !.Error = ErrDescribe]

\* The query returns: with a context error once the context is done, with the
\* cluster's answer otherwise.
QueryReturn(i) ==
    /\ pc[i] = "querying"
    /\ LET behaviour == remote[GetContext(mappings, clusters[i].Name).context]
       IN  wres' = [wres EXCEPT ![i] =
                      IF op = "get"
                      THEN QueryResult(wres[i], query, behaviour, CtxDone(i))
                      ELSE DescribeResult(wres[i], query, behaviour, CtxDone(i))]
    /\ pc' = [pc EXCEPT ![i] = "finished"]
    /\ UNCHANGED <<cmdVars, envVars, ctxCancelled, clusters, getPc, results, getErr,
                   resultChan, chanClosed, sem, wg, deadline, invoked>>

\* resultChan <- result (capacity len(clusters))
Send(i) ==
    /\ pc[i] = "finished"
    /\ ~chanClosed
    /\ Len(resultChan) < Len(clusters)
    /\ resultChan' = Append(resultChan, wres[i])
    /\ pc' = [pc EXCEPT ![i] = "sent"]
    /\ UNCHANGED <<cmdVars, envVars, ctxCancelled, clusters, getPc, results, getErr,
                   chanClosed, sem, wg, deadline, wres, invoked>>

\* A faulty worker that gives its slot back only after a successful query.
ReleaseOnSuccess(i) ==
    /\ pc[i] = "sent"
    /\ sem' = IF wres[i].Success THEN sem - 1 ELSE sem
    /\ pc' = [pc EXCEPT ![i] = "released"]
    /\ UNCHANGED <<cmdVars, envVars, ctxCancelled, clusters, getPc, results, getErr,
                   resultChan, chanClosed, wg, deadline, wres, invoked>>

\* deferred: cancel() ; <-sem
Release(i) ==
    /\ pc[i] = "sent"
    /\ sem' = sem - 1
    /\ pc' = [pc EXCEPT ![i] = "released"]
    /\ UNCHANGED <<cmdVars, envVars, ctxCancelled, clusters, getPc, results, getErr,
                   resultChan, chanClosed, wg, deadline, wres, invoked>>

\* deferred: wg.Done()
Done(i) ==
    /\ pc[i] = "released"
    /\ wg' = wg - 1
    /\ pc' = [pc EXCEPT ![i] = "done"]
    /\ UNCHANGED <<cmdVars, envVars, ctxCancelled, clusters, getPc, results, getErr,
                   resultChan, chanClosed, sem, deadline, wres, invoked>>

\* A faulty, fail-fast timeout that cancels the context the workers share.
OnTimeoutFailFast(dl, cancelled, i) ==
    [dl |-> [dl EXCEPT ![i] = TRUE], cancelled |-> TRUE]

\* The deadline of worker i's timeout context passes while its query is in
\* flight. Only that context is done: the parent context and the siblings'
\* contexts are untouched. (A deadline that passes before the query is issued
\* shows as the same context error of the query; one that passes on a context
\* that is already done changes nothing.)
OnTimeout(dl, cancelled, i) == [dl |-> [dl EXCEPT ![i] = TRUE], cancelled |-> cancelled]

Timeout(i) ==
    /\ pc[i] = "querying"
    /\ ~CtxDone(i)
    /\ deadline' = OnTimeout(deadline, ctxCancelled, i).dl
    /\ ctxCancelled' = OnTimeout(deadline, ctxCancelled, i).cancelled
    /\ UNCHANGED <<cmdVars, envVars, clusters, getPc, results, getErr, resultChan,
                   chanClosed, sem, wg, pc, wres, invoked>>

\* A faulty wait that returns while one goroutine is still counted.
WaitReturnsEarly(counter) == counter <= 1

\* wg.Wait() returns once the counter is zero.
WaitReturns(counter) == counter = 0

\* go func() { wg.Wait(); close(resultChan) }()
CloseChan ==
    /\ getPc = "collecting"
    /\ ~chanClosed
    /\ WaitReturns(wg)
    /\ chanClosed' = TRUE
    /\ UNCHANGED <<cmdVars, envVars, ctxCancelled, clusters, getPc, results, getErr,
                   resultChan, sem, wg, pc, deadline, wres, invoked>>

\* for result := range resultChan { results.AddResult(result) }
Collect ==
    /\ getPc = "collecting"
    /\ resultChan # <<>>
    /\ results' = AddResult(results, Head(resultChan))
    /\ resultChan' = Tail(resultChan)
    /\ UNCHANGED <<cmdVars, envVars, ctxCancelled, clusters, getPc, getErr,
                   chanClosed, sem, wg, pc, deadline, wres, invoked>>

\* A faulty return that propagates a failure of the round as an error.
GetErrorOnFailure(ar) ==
    IF ar.Summary.Failed > 0 THEN "one or more clusters failed" ELSE Nil

\* The error Executor.Get returns with its results: always nil.
GetError(ar) == Nil

\* A faulty collector that honours ContinueOnError = false by ending the loop
\* at the first failed result.
RangeEndsOnFailure(ch, closed) ==
    \/ closed /\ ch = <<>>
    \/ ~config.ContinueOnError /\ results.Summary.Failed > 0

\* A range loop over a channel ends once the channel is closed and drained.
RangeEnds(ch, closed) == closed /\ ch = <<>>

\* The range loop ends; return results, nil.
GetReturn ==
    /\ getPc = "collecting"
    /\ RangeEnds(resultChan, chanClosed)
    /\ getPc' = "returned"
    /\ getErr' = GetError(results)
    /\ UNCHANGED <<cmdVars, envVars, ctxCancelled, clusters, results, resultChan,
                   chanClosed, sem, wg, pc, deadline, wres, invoked>>

Worker(i) ==
    \/ Acquire(i)
    \/ QueryReturn(i)
    \/ Send(i)
    \/ Release(i)
    \/ Done(i)
    \/ Timeout(i)

Round ==
    \/ GetSpawn
    \/ \E i \in Workers : Worker(i)
    \/ CloseChan
    \/ Collect
    \/ GetReturn

\* ------------------------------------------- a round called directly (Spec)

Prefix(n) == [i \in 1..n |-> ClusterInfo(ClusterUniverse[i])]

\* The mapping file the setup flow leaves for clusters in the given states.
RECURSIVE MappingsFor(_, _)
MappingsFor(cs, st) ==
    IF cs = <<>> THEN <<>>
    ELSE IF st[Head(cs).Name] = "unmapped" THEN MappingsFor(Tail(cs), st)
    ELSE <<ClusterMapping(Head(cs).Name, ContextOf(Head(cs).Name), <<>>)>>
            \o MappingsFor(Tail(cs), st)

Names(cs) == {cs[i].Name : i \in DOMAIN cs}

Queries ==
    { [resource |-> "pods", name |-> <<>>, namespace |-> "default"],
      [resource |-> "pod", name |-> <<"a">>, namespace |-> ""],
      [resource |-> "widgets", name |-> <<>>, namespace |-> "default"] }

Init ==
    /\ cmdPc = "none"
    /\ hubClusters = <<>>
    /\ discovered = <<>>
    /\ include = <<>>
    /\ exclude = <<>>
    /\ stdout = <<>>
    /\ stderr = <<>>
    /\ cmdErr = Nil
    /\ exitCode = -1
    /\ ret = Nil
    /\ hist = <<>>
    /\ op = "get"
    /\ query \in Queries
    /\ \E m \in 1..MaxConc : config = [DefaultConfig EXCEPT !.MaxConcurrency = m]
    /\ \E n \in 0..MaxClusters :
         /\ clusters = Prefix(n)
         /\ \E st \in [Names(Prefix(n)) -> ClusterStates] :
              /\ mappings = MappingsFor(Prefix(n), st)
              /\ mappingFile = [status |-> "ok",
                                 clusters |-> Marshal(MappingsFor(Prefix(n), st))]
              /\ remote = [c \in {ContextOf(x) : x \in {y \in Names(Prefix(n)) : st[y] # "unmapped"}}
                             |-> st[Tail(c)]]
    /\ ctxAtCall \in BOOLEAN
    /\ ctxCancelled = ctxAtCall
    /\ getPc = "called"
    /\ results = NewAggregatedResults(<<>>)
    /\ getErr = Nil
    /\ resultChan = <<>>
    /\ chanClosed = FALSE
    /\ sem = 0
    /\ wg = 0
    /\ pc = <<>>
    /\ deadline = <<>>
    /\ wres = <<>>
    /\ invoked = <<>>

\* A round is called with a context that is done already or stays live (the
\* commands pass context.Background()).
Next == Round

Spec == Init /\ [][Next]_vars

\* ------------------------------------------------- the commands (SpecCmd)

\* Largest number of clusters the hub lists to a command.
MaxDiscovered == 2

ErrHubClient == "failed to create dynamic client for hub"
ErrDiscover == "failed to discover clusters"
ErrLoadMappings == "failed to load kubeconfig mappings"
ErrExecute == "failed to execute"
ErrAggregate == "failed to aggregate results"
ErrAllFailed == "all clusters failed"

\* main: os.Exit(1) when Execute returns an error.
ExitCodeOf(err) == IF err # Nil THEN 1 ELSE 0

\* RunE returns err: cobra prints it and main exits.
Exit(err, out, errOut) ==
    /\ cmdPc' = "exit"
    /\ cmdErr' = err
    /\ stdout' = stdout \o out
    /\ stderr' = stderr \o errOut
                   \o (IF err # Nil THEN <<[kind |-> "error", text |-> err]>> ELSE <<>>)
    /\ exitCode' = ExitCodeOf(err)

\* A faulty command that notes the discovery error and goes on with whatever
\* the hub holds.
DiscoverDefersError ==
    /\ cmdPc = "start"
    /\ \/ /\ Exit(ErrHubClient, <<>>, <<>>)
          /\ UNCHANGED discovered
       \/ /\ discovered' = hubClusters
          /\ cmdPc' = "discovered"
          /\ cmdErr' = ErrDiscover
          /\ UNCHANGED <<stdout, stderr, exitCode>>
       \/ /\ hubClusters = <<>>
          /\ discovered' = <<>>
          /\ Exit(Nil, <<>>, <<[kind |-> "info", text |-> "No clusters discovered from hub"]>>)
       \/ /\ hubClusters # <<>>
          /\ discovered' = hubClusters
          /\ cmdPc' = "discovered"
          /\ stderr' = Append(stderr, [kind |-> "info", text |-> "Discovered cluster(s)"])
          /\ UNCHANGED <<stdout, cmdErr, exitCode>>
    /\ UNCHANGED <<ret, hist, hubClusters, include, exclude, mappingFile, envVars,
                   ctxCancelled, roundVars>>

\* runGet / runDescribe through ListClusters: the hub client, the listing of
\* the ClusterProfiles, and the return when there is none.
Discover ==
    /\ cmdPc = "start"
    /\ \/ /\ Exit(ErrHubClient, <<>>, <<>>)
          /\ UNCHANGED discovered
       \/ /\ Exit(ErrDiscover, <<>>, <<>>)
          /\ UNCHANGED discovered
       \/ /\ hubClusters = <<>>
          /\ discovered' = <<>>
          /\ Exit(Nil, <<>>, <<[kind |-> "info", text |-> "No clusters discovered from hub"]>>)
       \/ /\ hubClusters # <<>>
          /\ discovered' = hubClusters
          /\ cmdPc' = "discovered"
          /\ stderr' = Append(stderr, [kind |-> "info", text |-> "Discovered cluster(s)"])
          /\ UNCHANGED <<stdout, cmdErr, exitCode>>
    /\ UNCHANGED <<ret, hist, hubClusters, include, exclude, mappingFile, envVars,
                   ctxCancelled, roundVars>>

\* kubeconfig.NewManager(""): load the mapping file; a missing file is an
\* empty config, an unparsable one is an error.
LoadMappings ==
    /\ cmdPc = "discovered"
    /\ IF NewManager(mappingFile).err # Nil
       THEN /\ Exit(ErrLoadMappings, <<>>, <<>>)
            /\ UNCHANGED mappings
       ELSE /\ mappings' = NewManager(mappingFile).clusters
            /\ cmdPc' = "loaded"
            /\ UNCHANGED <<stdout, stderr, cmdErr, exitCode>>
    /\ UNCHANGED <<ret, hist, hubClusters, discovered, include, exclude, mappingFile,
                   op, query, config, remote, ctxAtCall, ctxCancelled, roundVars>>

\* A faulty command that hands every discovered cluster to the executor.
DispatchUnfiltered ==
    /\ cmdPc = "loaded"
    /\ clusters' = discovered
    /\ config' = DefaultConfig
    /\ getPc' = "called"
    /\ cmdPc' = "round"
    /\ UNCHANGED <<ret, hist, hubClusters, discovered, include, exclude, mappingFile,
                   stdout, stderr, cmdErr, exitCode,
                   op, query, mappings, remote, ctxAtCall, ctxCancelled,
                   results, getErr, resultChan, chanClosed, sem, wg, pc,
                   deadline, wres, invoked>>

\* filterClusters, NewExecutor, and the call of exec.Get / exec.Describe with
\* context.Background().
Dispatch ==
    /\ cmdPc = "loaded"
    /\ clusters' = filterClusters(discovered, include, exclude)
    /\ config' = DefaultConfig
    /\ getPc' = "called"
    /\ cmdPc' = "round"
    /\ UNCHANGED <<ret, hist, hubClusters, discovered, include, exclude, mappingFile,
                   stdout, stderr, cmdErr, exitCode,
                   op, query, mappings, remote, ctxAtCall, ctxCancelled,
                   results, getErr, resultChan, chanClosed, sem, wg, pc,
                   deadline, wres, invoked>>

\* The aggregator the command runs on the round's results.
Aggregate(kind, ar, resourceType) ==
    IF kind = "get" THEN AggregateGetResults(ar, resourceType)
    ELSE AggregateDescribeResults(ar, resourceType)

\* The lines "  - cluster: error" of the summary error list (a Go map is
\* ranged over in no particular order: the list is a set of lines).
ErrorList(ar) ==
    [kind |-> "errors",
     lines |-> {[cluster |-> n, error |-> ar.Summary.Errors[n]] :
                   n \in DOMAIN ar.Summary.Errors}]

AnyFailed(ar) == ar.Summary.Failed > 0

\* The condition under which the command prints the error list and fails.
AllFailed(ar) == ar.Summary.Failed > 0 /\ ar.Summary.Successful = 0

\* runGet / runDescribe after the round: the error of the round, the
\* aggregation, and the error list when all clusters failed.
Finish ==
    /\ cmdPc = "round"
    /\ getPc = "returned"
    /\ LET agg == Aggregate(op, results, query.resource)
       IN  IF getErr # Nil THEN Exit(ErrExecute, <<>>, <<>>)
           ELSE IF agg.err # Nil THEN Exit(ErrAggregate, agg.out, <<>>)
           ELSE IF AllFailed(results)
           THEN Exit(ErrAllFailed, agg.out,
                     <<[kind |-> "info", text |-> "Error: Failed to query all clusters"],
                       ErrorList(results)>>)
           ELSE Exit(Nil, agg.out, <<>>)
    /\ UNCHANGED <<ret, hist, hubClusters, discovered, include, exclude, mappingFile,
                   envVars, ctxCancelled, roundVars>>

HubPrefix(n) == [i \in 1..n |-> ClusterInfo(ClusterUniverse[i])]

\* The flag values tried: none, a glob, an exact name.
IncludeFlags == { <<>>, << <<"a", "*">> >>, << <<"b">> >> }
ExcludeFlags == { <<>>, << <<"z">> >> }

InitCmd ==
    /\ cmdPc = "start"
    /\ op \in {"get", "describe"}
    /\ query \in Queries
    /\ config = DefaultConfig
    /\ include \in IncludeFlags
    /\ exclude \in ExcludeFlags
    /\ \E n \in 0..MaxDiscovered :
         /\ hubClusters = HubPrefix(n)
         /\ \E st \in [Names(HubPrefix(n)) -> ClusterStates] :
              /\ mappingFile \in
                   {[status |-> "ok", clusters |-> Marshal(MappingsFor(HubPrefix(n), st))]}
                   \cup (IF \A x \in Names(HubPrefix(n)) : st[x] = "unmapped"
                         THEN {[status |-> "invalid", clusters |-> <<>>],
                               [status |-> "missing", clusters |-> <<>>]}
                         ELSE {})
              /\ remote = [c \in {ContextOf(x) : x \in {y \in Names(HubPrefix(n)) : st[y] # "unmapped"}}
                             |-> st[Tail(c)]]
    /\ discovered = <<>>
    /\ mappings = <<>>
    /\ stdout = <<>>
    /\ stderr = <<>>
    /\ cmdErr = Nil
    /\ exitCode = -1
    /\ ret = Nil
    /\ hist = <<>>
    /\ ctxAtCall = FALSE
    /\ ctxCancelled = FALSE
    /\ clusters = <<>>
    /\ getPc = "idle"
    /\ results = NewAggregatedResults(<<>>)
    /\ getErr = Nil
    /\ resultChan = <<>>
    /\ chanClosed = FALSE
    /\ sem = 0
    /\ wg = 0
    /\ pc = <<>>
    /\ deadline = <<>>
    /\ wres = <<>>
    /\ invoked = <<>>

NextCmd ==
    \/ Discover
    \/ LoadMappings
    \/ Dispatch
    \/ Round
    \/ Finish

SpecCmd == InitCmd /\ [][NextCmd]_vars

\* ------------------------------------------- the aggregators (SpecAgg)

\* Largest number of results handed to an aggregator.
MaxAggResults == 3

\* The round is not running.
RoundIdle ==
    /\ clusters = <<>>
    /\ getPc = "idle"
    /\ getErr = Nil
    /\ resultChan = <<>>
    /\ chanClosed = FALSE
    /\ sem = 0
    /\ wg = 0
    /\ pc = <<>>
    /\ deadline = <<>>
    /\ wres = <<>>
    /\ invoked = <<>>
    /\ ctxAtCall = FALSE
    /\ ctxCancelled = FALSE
    /\ remote = <<>>
    /\ config = DefaultConfig

\* No command has discovered or selected anything.
NoCommand ==
    /\ hubClusters = <<>>
    /\ discovered = <<>>
    /\ include = <<>>
    /\ exclude = <<>>
    /\ stderr = <<>>
    /\ exitCode = -1
    /\ ret = Nil
    /\ hist = <<>>

\* The ClusterResults a caller can hand to an aggregator for cluster n: a
\* success with the cluster's objects, a success with nothing, a failure, and
\* a failure whose result still carries data.
ResultKinds == {"full", "empty", "failed", "stale"}

ResultOfKind(n, kind) ==
    IF kind = "full" THEN ClusterResult(n, TRUE, RemoteItems(n), RemoteItems(n), Nil)
    ELSE IF kind = "empty" THEN ClusterResult(n, TRUE, <<>>, <<>>, Nil)
    ELSE IF kind = "failed" THEN ClusterResult(n, FALSE, <<>>, <<>>, ErrList)
    ELSE ClusterResult(n, FALSE, RemoteItems(n), RemoteItems(n), ErrListCtx)

\* The results of a round, added in the order given.
RECURSIVE AddAll(_, _)
AddAll(ar, rs) == IF rs = <<>> THEN ar ELSE AddAll(AddResult(ar, Head(rs)), Tail(rs))

UniverseNames == {ClusterUniverse[i] : i \in DOMAIN ClusterUniverse}

InitAgg ==
    /\ cmdPc = "agg-input"
    /\ op \in {"get", "describe"}
    /\ query \in Queries
    /\ \E n \in 0..MaxAggResults :
         \E names \in [1..n -> UniverseNames], kinds \in [1..n -> ResultKinds] :
            /\ \A i, j \in 1..n : i # j => names[i] # names[j]
            /\ results = AddAll(NewAggregatedResults(names),
                                [i \in 1..n |-> ResultOfKind(names[i], kinds[i])])
    /\ stdout = <<>>
    /\ cmdErr = Nil
    /\ mappings = <<>>
    /\ mappingFile = [status |-> "missing", clusters |-> <<>>]
    /\ NoCommand
    /\ RoundIdle

\* agg.AggregateGetResults(results, resource) on a TableAggregator over stdout.
AggGet ==
    /\ cmdPc = "agg-input"
    /\ op = "get"
    /\ stdout' = stdout \o AggregateGetResults(results, query.resource).out
    /\ cmdErr' = AggregateGetResults(results, query.resource).err
    /\ cmdPc' = "agg-done"
    /\ UNCHANGED <<ret, hist, hubClusters, discovered, include, exclude, mappingFile,
                   stderr, exitCode, envVars, ctxCancelled, roundVars>>

\* agg.AggregateDescribeResults(results, resource) on a DescribeAggregator
\* over stdout.
AggDescribe ==
    /\ cmdPc = "agg-input"
    /\ op = "describe"
    /\ stdout' = stdout \o AggregateDescribeResults(results, query.resource).out
    /\ cmdErr' = AggregateDescribeResults(results, query.resource).err
    /\ cmdPc' = "agg-done"
    /\ UNCHANGED <<ret, hist, hubClusters, discovered, include, exclude, mappingFile,
                   stderr, exitCode, envVars, ctxCancelled, roundVars>>

NextAgg ==
    \/ AggGet
    \/ AggDescribe

SpecAgg == InitAgg /\ [][NextAgg]_vars

\* ---------------------------------------- the cluster selector (SpecFilter)

\* Longest pattern tried in every spelling, and the most clusters selected from.
MaxPatternLen == 4
MaxFilterClusters == 2

\* The characters patterns are spelled with: the glob syntax and two letters.
PatternAlphabet == {"*", "?", "[", "]", "\\", "-", "^", "a", "b"}

RECURSIVE StringsUpTo(_, _)
StringsUpTo(chars, n) ==
    IF n = 0 THEN {<<>>}
    ELSE LET shorter == StringsUpTo(chars, n - 1)
         IN  shorter \cup {<<c>> \o t : c \in chars, t \in {x \in shorter : Len(x) = n - 1}}

\* Every pattern of up to MaxPatternLen characters.
AllPatterns == StringsUpTo(PatternAlphabet, MaxPatternLen)

\* Patterns combined in --clusters and --exclude lists.
SelectorPatterns ==
    { <<"a", "*">>, <<"?">>, <<"[", "a", "-", "b", "]">>, <<"b">>,
      <<"*", "-", "*">>, <<"[">> }

SelectorLists ==
    {<<>>} \cup {<<x>> : x \in SelectorPatterns}
           \cup {<<x, y>> : x \in SelectorPatterns, y \in SelectorPatterns}

\* Names of ClusterProfiles (DNS labels).
FilterNames == { <<"a">>, <<"b">>, <<"a", "b">>, <<"b", "a">>, <<"a", "-", "b">> }

\* The lists of up to n clusters with distinct names.
ClusterLists(n) ==
    UNION {{[i \in 1..k |-> ClusterInfo(f[i])] :
               f \in {g \in [1..k -> FilterNames] :
                         \A i, j \in 1..k : i # j => g[i] # g[j]}} : k \in 0..n}

InitFilter ==
    /\ cmdPc = "filter-input"
    /\ \/ /\ discovered \in ClusterLists(1)
          /\ include \in {<<x>> : x \in AllPatterns}
          /\ exclude = <<>>
       \/ /\ discovered \in ClusterLists(MaxFilterClusters)
          /\ include \in SelectorLists
          /\ exclude \in SelectorLists
    /\ clusters = <<>>
    /\ ret = Nil
    /\ hist = <<>>
    /\ hubClusters = <<>>
    /\ stdout = <<>>
    /\ stderr = <<>>
    /\ cmdErr = Nil
    /\ exitCode = -1
    /\ op = "get"
    /\ query \in {q \in Queries : q.resource = "pods"}
    /\ mappings = <<>>
    /\ mappingFile = [status |-> "missing", clusters |-> <<>>]
    /\ results = NewAggregatedResults(<<>>)
    /\ getPc = "idle"
    /\ getErr = Nil
    /\ resultChan = <<>>
    /\ chanClosed = FALSE
    /\ sem = 0
    /\ wg = 0
    /\ pc = <<>>
    /\ deadline = <<>>
    /\ wres = <<>>
    /\ invoked = <<>>
    /\ ctxAtCall = FALSE
    /\ ctxCancelled = FALSE
    /\ remote = <<>>
    /\ config = DefaultConfig

\* filteredClusters := filterClusters(clusters, clustersFlag, excludeFlag)
Filter ==
    /\ cmdPc = "filter-input"
    /\ clusters' = filterClusters(discovered, include, exclude)
    /\ cmdPc' = "filtered"
    /\ UNCHANGED <<hubClusters, discovered, include, exclude, mappingFile,
                   stdout, stderr, cmdErr, exitCode, ret, hist,
                   envVars, ctxCancelled,
                   getPc, results, getErr, resultChan, chanClosed, sem, wg, pc,
                   deadline, wres, invoked>>

\* filterClusters applied to its own result with the same flags.
FilterAgain ==
    /\ cmdPc = "filtered"
    /\ ret' = filterClusters(clusters, include, exclude)
    /\ cmdPc' = "refiltered"
    /\ UNCHANGED <<hubClusters, discovered, include, exclude, mappingFile,
                   stdout, stderr, cmdErr, exitCode, hist,
                   envVars, ctxCancelled, roundVars>>

\* matchesAny(cluster.Name, include) for the first cluster.
MatchName ==
    /\ cmdPc = "filter-input"
    /\ discovered # <<>>
    /\ ret' = matchesAny(discovered[1].Name, include)
    /\ cmdPc' = "matched"
    /\ UNCHANGED <<hubClusters, discovered, include, exclude, mappingFile,
                   stdout, stderr, cmdErr, exitCode, hist,
                   envVars, ctxCancelled, roundVars>>

NextFilter ==
    \/ Filter
    \/ FilterAgain
    \/ MatchName

SpecFilter == InitFilter /\ [][NextFilter]_vars

\* --------------------------------------------- the mapping Manager (SpecMgr)

\* The cluster names mapped, the contexts and the namespaces they are mapped with.
MgrNames == { <<"a">>, <<"b">> }
MgrContexts == { <<"-", "a">>, <<"z">> }
MgrNamespaces == { <<>>, <<"a">> }

\* A name no SetMapping call is made for.
NeverMapped == <<"z">>

\* The record of a SetMapping call, and that of none.
NoCall == [called |-> FALSE, context |-> <<>>, namespace |-> <<>>, ok |-> FALSE,
           intact |-> FALSE]
NoCalls == [n \in MgrNames |-> NoCall]

InitMgr ==
    /\ cmdPc = "manager"
    /\ mappingFile = [status |-> "missing", clusters |-> <<>>]
    /\ mappings = NewManager(mappingFile).clusters
    /\ ret = [op |-> "none"]
    /\ hist = [last |-> NoCalls, mine |-> NoCalls, fromEmpty |-> TRUE]
    /\ discovered = <<>>
    /\ include = <<>>
    /\ exclude = <<>>
    /\ clusters = <<>>
    /\ hubClusters = <<>>
    /\ stdout = <<>>
    /\ stderr = <<>>
    /\ cmdErr = Nil
    /\ exitCode = -1
    /\ op = "get"
    /\ query \in {q \in Queries : q.resource = "pods"}
    /\ results = NewAggregatedResults(<<>>)
    /\ getPc = "idle"
    /\ getErr = Nil
    /\ resultChan = <<>>
    /\ chanClosed = FALSE
    /\ sem = 0
    /\ wg = 0
    /\ pc = <<>>
    /\ deadline = <<>>
    /\ wres = <<>>
    /\ invoked = <<>>
    /\ ctxAtCall = FALSE
    /\ ctxCancelled = FALSE
    /\ remote = <<>>
    /\ config = DefaultConfig

\* m.SetMapping(clusterName, context, namespace): the config is updated, then
\* saved; the write ends in one of the ways a write can.
CallSetMapping ==
    /\ cmdPc = "manager"
    /\ \E n \in MgrNames, c \in MgrContexts, ns \in MgrNamespaces, outcome \in WriteOutcomes :
         LET updated == SetMapping(mappings, n, c, ns)
             saved == save(updated, mappingFile, outcome)
             call == [called |-> TRUE, context |-> c, namespace |-> ns,
                      ok |-> saved.err = Nil, intact |-> TRUE]
             damaged == outcome \in {"truncated", "partial"}
             others(h) == [x \in MgrNames |->
                             IF x # n /\ h[x].called /\ damaged
                             THEN [h[x] EXCEPT !.intact = FALSE] ELSE h[x]]
         IN  /\ mappings' = updated
             /\ mappingFile' = saved.file
             /\ ret' = [op |-> "SetMapping", name |-> n, context |-> c, namespace |-> ns,
                        err |-> saved.err, before |-> ListMappings(mappings)]
             /\ hist' = [hist EXCEPT !.last = [others(hist.last) EXCEPT ![n] = call],
                                      !.mine = [others(hist.mine) EXCEPT ![n] = call]]
    /\ UNCHANGED <<cmdPc, hubClusters, discovered, include, exclude,
                   stdout, stderr, cmdErr, exitCode,
                   op, query, config, remote, ctxAtCall, ctxCancelled, roundVars>>

\* m.GetContext(clusterName)
CallGetContext ==
    /\ cmdPc = "manager"
    /\ \E n \in MgrNames \cup {NeverMapped} :
         ret' = [op |-> "GetContext", name |-> n,
                 context |-> GetContext(mappings, n).context,
                 err |-> GetContext(mappings, n).err]
    /\ UNCHANGED <<cmdPc, hubClusters, discovered, include, exclude, mappingFile,
                   stdout, stderr, cmdErr, exitCode, hist,
                   envVars, ctxCancelled, roundVars>>

\* The process ends and the next one calls NewManager for the same path.
Restart ==
    /\ cmdPc \in {"manager", "nomanager"}
    /\ LET m == NewManager(mappingFile)
       IN  /\ cmdPc' = IF m.err = Nil THEN "manager" ELSE "nomanager"
           /\ mappings' = m.clusters
           /\ ret' = [op |-> "NewManager", err |-> m.err]
           /\ hist' = [hist EXCEPT !.mine = NoCalls, !.fromEmpty = (m.clusters = <<>>)]
    /\ UNCHANGED <<hubClusters, discovered, include, exclude, mappingFile,
                   stdout, stderr, cmdErr, exitCode,
                   op, query, config, remote, ctxAtCall, ctxCancelled, roundVars>>

NextMgr ==
    \/ CallSetMapping
    \/ CallGetContext
    \/ Restart

SpecMgr == InitMgr /\ [][NextMgr]_vars

-----------------------------------------------------------------------------
\* SpecMgrRace: goroutines that share one Manager.  The Manager has no lock
\* (its fields are configPath and config), so the reads and writes of
\* m.config.Clusters made by concurrent calls interleave one statement at a
\* time.  pc holds each goroutine's position, wres its call and locals, ret
\* what its call returned, hist the mappings the Manager started with.

MaxCallers == 2

raceFixed == <<cmdPc, hubClusters, discovered, include, exclude, stdout, stderr,
               cmdErr, exitCode, op, query, config, remote, ctxAtCall,
               ctxCancelled, clusters, getPc, results, getErr, resultChan,
               chanClosed, sem, wg, deadline, invoked>>

NoCallYet == [op |-> "none", name |-> <<>>, context |-> <<>>, namespace |-> <<>>,
              idx |-> 0, snap |-> <<>>]
NoReturn == [context |-> <<>>, err |-> Nil, list |-> <<>>]

InitMgrRace ==
    /\ cmdPc = "manager"
    /\ \E ms \in { <<>>, <<ClusterMapping(<<"a">>, <<"z">>, <<"a">>)>> } :
         /\ mappings = ms
         /\ mappingFile = IF ms = <<>> THEN [status |-> "missing", clusters |-> <<>>]
                          ELSE [status |-> "ok", clusters |-> Marshal(ms)]
         /\ hist = [init |-> ms]
    /\ pc = [g \in 1..MaxCallers |-> "idle"]
    /\ wres = [g \in 1..MaxCallers |-> NoCallYet]
    /\ ret = [g \in 1..MaxCallers |-> NoReturn]
    /\ discovered = <<>>
    /\ include = <<>>
    /\ exclude = <<>>
    /\ clusters = <<>>
    /\ hubClusters = <<>>
    /\ stdout = <<>>
    /\ stderr = <<>>
    /\ cmdErr = Nil
    /\ exitCode = -1
    /\ op = "get"
    /\ query \in {q \in Queries : q.resource = "pods"}
    /\ results = NewAggregatedResults(<<>>)
    /\ getPc = "idle"
    /\ getErr = Nil
    /\ resultChan = <<>>
    /\ chanClosed = FALSE
    /\ sem = 0
    /\ wg = 0
    /\ deadline = <<>>
    /\ invoked = <<>>
    /\ ctxAtCall = FALSE
    /\ ctxCancelled = FALSE
    /\ remote = <<>>
    /\ config = DefaultConfig

\* m.GetContext(clusterName) by goroutine g: one pass over the slice.
RaceGetContext(g) ==
    /\ pc[g] = "idle"
    /\ \E n \in MgrNames :
         /\ wres' = [wres EXCEPT ![g] = [NoCallYet EXCEPT !.op = "GetContext", !.name = n]]
         /\ ret' = [ret EXCEPT ![g] = [context |-> GetContext(mappings, n).context,
                                       err |-> GetContext(mappings, n).err,
                                       list |-> <<>>]]
    /\ pc' = [pc EXCEPT ![g] = "returned"]
    /\ UNCHANGED <<mappings, mappingFile, hist, raceFixed>>

\* m.ListMappings() by goroutine g.
RaceListMappings(g) ==
    /\ pc[g] = "idle"
    /\ wres' = [wres EXCEPT ![g] = [NoCallYet EXCEPT !.op = "ListMappings"]]
    /\ ret' = [ret EXCEPT ![g] = [NoReturn EXCEPT !.list = ListMappings(mappings)]]
    /\ pc' = [pc EXCEPT ![g] = "returned"]
    /\ UNCHANGED <<mappings, mappingFile, hist, raceFixed>>

\* m.SetMapping(clusterName, context, namespace) by goroutine g, the loop that
\* looks for the name: the index of the first mapping with it, or none.
SetMappingScan(g) ==
    /\ pc[g] = "idle"
    /\ \E n \in MgrNames, c \in MgrContexts, ns \in MgrNamespaces :
         LET found == {i \in DOMAIN mappings : mappings[i].Name = n}
             first == IF found = {} THEN 0
                      ELSE CHOOSE i \in found : \A j \in found : i <= j
         IN  /\ wres' = [wres EXCEPT ![g] = [op |-> "SetMapping", name |-> n,
                                             context |-> c, namespace |-> ns,
                                             idx |-> first, snap |-> <<>>]]
             /\ pc' = [pc EXCEPT ![g] = IF first = 0 THEN "append" ELSE "context"]
    /\ UNCHANGED <<mappings, mappingFile, ret, hist, raceFixed>>

\* m.config.Clusters[i].Context = context
SetMappingContext(g) ==
    /\ pc[g] = "context"
    /\ mappings' = [mappings EXCEPT ![wres[g].idx].Context = wres[g].context]
    /\ pc' = [pc EXCEPT ![g] = "namespace"]
    /\ UNCHANGED <<mappingFile, wres, ret, hist, raceFixed>>

\* m.config.Clusters[i].Namespace = namespace
SetMappingNamespace(g) ==
    /\ pc[g] = "namespace"
    /\ mappings' = [mappings EXCEPT ![wres[g].idx].Namespace = wres[g].namespace]
    /\ pc' = [pc EXCEPT ![g] = "marshal"]
    /\ UNCHANGED <<mappingFile, wres, ret, hist, raceFixed>>

\* append(m.config.Clusters, ClusterMapping{...}): the slice is read
SetMappingAppendRead(g) ==
    /\ pc[g] = "append"
    /\ wres' = [wres EXCEPT ![g].snap = mappings]
    /\ pc' = [pc EXCEPT ![g] = "store"]
    /\ UNCHANGED <<mappings, mappingFile, ret, hist, raceFixed>>

\* m.config.Clusters = ...: the slice that was read, one longer, is stored
SetMappingAppendStore(g) ==
    /\ pc[g] = "store"
    /\ mappings' = Append(wres[g].snap,
                          ClusterMapping(wres[g].name, wres[g].context, wres[g].namespace))
    /\ pc' = [pc EXCEPT ![g] = "marshal"]
    /\ UNCHANGED <<mappingFile, wres, ret, hist, raceFixed>>

\* m.save(), yaml.Marshal(m.config): the document of the config as it is now
SaveMarshal(g) ==
    /\ pc[g] = "marshal"
    /\ wres' = [wres EXCEPT ![g].snap = mappings]
    /\ pc' = [pc EXCEPT ![g] = "write"]
    /\ UNCHANGED <<mappings, mappingFile, ret, hist, raceFixed>>

\* m.save(), os.WriteFile: the document replaces the file; SetMapping returns.
SaveWrite(g) ==
    /\ pc[g] = "write"
    /\ mappingFile' = save(wres[g].snap, mappingFile, "written").file
    /\ ret' = [ret EXCEPT ![g] = [NoReturn EXCEPT
                                    !.err = save(wres[g].snap, mappingFile, "written").err]]
    /\ pc' = [pc EXCEPT ![g] = "returned"]
    /\ UNCHANGED <<mappings, wres, hist, raceFixed>>

NextMgrRace ==
    \E g \in 1..MaxCallers :
        \/ RaceGetContext(g)
        \/ RaceListMappings(g)
        \/ SetMappingScan(g)
        \/ SetMappingContext(g)
        \/ SetMappingNamespace(g)
        \/ SetMappingAppendRead(g)
        \/ SetMappingAppendStore(g)
        \/ SaveMarshal(g)
        \/ SaveWrite(g)

SpecMgrRace == InitMgrRace /\ [][NextMgrRace]_vars

-----------------------------------------------------------------------------
\* SpecDisc: ClusterProfileDiscovery over the ClusterProfile records the hub
\* returns.  A record is unstructured: a field of it is absent, a value of the
\* expected type, or a value of another type.  hubClusters holds the records
\* of the namespace, ret what the last call returned.

MaxRecords == 2

\* A field of a record: kind is "absent", "string", "slice" or "other".
Field(kind, val) == [kind |-> kind, val |-> val]

\* An entry of status.conditions: a map with type and status (kind "map"),
\* or anything else (kind "other").
Condition(kind, t, st) == [kind |-> kind, type |-> t, status |-> st]

\* The ClusterProfile records a hub can hold.
Records ==
    [ name : {<<"a">>, <<"b">>},
      displayName : {Field("absent", <<>>), Field("string", <<"z">>), Field("other", <<>>)},
      version : {Field("absent", <<>>), Field("string", <<"1">>)},
      conditions :
        { Field("absent", <<>>), Field("other", <<>>), Field("slice", <<>>),
          Field("slice", <<Condition("map", "ControlPlaneHealthy", "True")>>),
          Field("slice", <<Condition("other", "", ""),
                           Condition("map", "ControlPlaneHealthy", "True")>>),
          Field("slice", <<Condition("map", "ControlPlaneHealthy", "False")>>) } ]

RecordLists ==
    { l \in UNION { [1..k -> Records] : k \in 0..MaxRecords } :
        \A i, j \in DOMAIN l : i # j => l[i].name # l[j].name }

\* unstructured.NestedString on a field: value, found, and error for a value
\* that is not a string.
NestedString(field) ==
    IF field.kind = "absent" THEN [val |-> <<>>, found |-> FALSE, err |-> FALSE]
    ELSE IF field.kind = "string" THEN [val |-> field.val, found |-> TRUE, err |-> FALSE]
    ELSE [val |-> <<>>, found |-> FALSE, err |-> TRUE]

\* unstructured.NestedSlice on a field
NestedSlice(field) ==
    IF field.kind = "absent" THEN [val |-> <<>>, found |-> FALSE, err |-> FALSE]
    ELSE IF field.kind = "slice" THEN [val |-> field.val, found |-> TRUE, err |-> FALSE]
    ELSE [val |-> <<>>, found |-> FALSE, err |-> TRUE]

isClusterHealthy(obj) ==
    LET conditions == NestedSlice(obj.conditions)
    IN  IF conditions.err \/ ~conditions.found THEN FALSE
        ELSE \E i \in DOMAIN conditions.val :
                /\ conditions.val[i].kind = "map"
                /\ conditions.val[i].type = "ControlPlaneHealthy"
                /\ conditions.val[i].status = "True"

\* A parser that rejects a record with a field of the wrong type.
parseClusterProfileStrict(obj) ==
    LET displayName == NestedString(obj.displayName)
        version == NestedString(obj.version)
    IN  [cluster |-> [Name |-> obj.name,
                      DisplayName |-> IF displayName.found THEN displayName.val ELSE obj.name,
                      KubernetesVersion |-> version.val,
                      Healthy |-> isClusterHealthy(obj)],
         err |-> IF displayName.err \/ version.err \/ NestedSlice(obj.conditions).err
                 THEN "malformed ClusterProfile" ELSE Nil]

\* parseClusterProfile: the ClusterInfo of a record; the error is always nil.
parseClusterProfile(obj) ==
    LET displayName == NestedString(obj.displayName)
        version == NestedString(obj.version)
    IN  [cluster |-> [Name |-> obj.name,
                      DisplayName |-> IF ~displayName.err /\ displayName.found
                                      THEN displayName.val ELSE obj.name,
                      KubernetesVersion |-> IF ~version.err /\ version.found
                                            THEN version.val ELSE <<>>,
                      Healthy |-> isClusterHealthy(obj)],
         err |-> Nil]

RECURSIVE parseAll(_)
\* The loop of ListClusters: a record whose parse fails is passed over.
parseAll(items) ==
    IF items = <<>> THEN <<>>
    ELSE LET parsed == parseClusterProfile(Head(items))
         IN  IF parsed.err # Nil THEN parseAll(Tail(items))
             ELSE <<parsed.cluster>> \o parseAll(Tail(items))

\* ListClusters, given whether the List call failed and the items it returned.
ListClusters(listFails, items) ==
    IF listFails THEN [clusters |-> <<>>, err |-> "failed to list ClusterProfiles"]
    ELSE [clusters |-> parseAll(items), err |-> Nil]

\* GetCluster: the record of the name, parsed, or the error of the Get call.
GetCluster(items, name) ==
    IF \E i \in DOMAIN items : items[i].name = name
    THEN LET parsed == parseClusterProfile(
                           items[CHOOSE i \in DOMAIN items : items[i].name = name])
         IN  [clusters |-> IF parsed.err = Nil THEN <<parsed.cluster>> ELSE <<>>,
              err |-> parsed.err]
    ELSE [clusters |-> <<>>, err |-> "failed to get ClusterProfile"]

InitDisc ==
    /\ cmdPc = "discovery"
    /\ hubClusters \in RecordLists
    /\ ret = [op |-> "none", listed |-> FALSE, name |-> <<>>, clusters |-> <<>>, err |-> Nil]
    /\ hist = <<>>
    /\ mappingFile = [status |-> "missing", clusters |-> <<>>]
    /\ mappings = <<>>
    /\ discovered = <<>>
    /\ include = <<>>
    /\ exclude = <<>>
    /\ stdout = <<>>
    /\ stderr = <<>>
    /\ cmdErr = Nil
    /\ exitCode = -1
    /\ op = "get"
    /\ query \in {q \in Queries : q.resource = "pods"}
    /\ results = NewAggregatedResults(<<>>)
    /\ RoundIdle

\* d.ListClusters(ctx)
CallListClusters ==
    /\ cmdPc = "discovery"
    /\ \E listFails \in BOOLEAN :
         ret' = [op |-> "ListClusters", listed |-> ~listFails, name |-> <<>>,
                 clusters |-> ListClusters(listFails, hubClusters).clusters,
                 err |-> ListClusters(listFails, hubClusters).err]
    /\ cmdPc' = "called"
    /\ UNCHANGED <<hubClusters, discovered, include, exclude, mappingFile, stdout,
                   stderr, cmdErr, exitCode, hist, envVars, ctxCancelled, roundVars>>

\* d.GetCluster(ctx, name)
CallGetCluster ==
    /\ cmdPc = "discovery"
    /\ \E name \in {<<"a">>, <<"b">>} :
         ret' = [op |-> "GetCluster", listed |-> FALSE, name |-> name,
                 clusters |-> GetCluster(hubClusters, name).clusters,
                 err |-> GetCluster(hubClusters, name).err]
    /\ cmdPc' = "called"
    /\ UNCHANGED <<hubClusters, discovered, include, exclude, mappingFile, stdout,
                   stderr, cmdErr, exitCode, hist, envVars, ctxCancelled, roundVars>>

NextDisc ==
    \/ CallListClusters
    \/ CallGetCluster

SpecDisc == InitDisc /\ [][NextDisc]_vars

-----------------------------------------------------------------------------
\* SpecFlag: a round called with either value of ExecutorConfig.ContinueOnError.

MaxFlagClusters == 2

InitFlag ==
    /\ cmdPc = "none"
    /\ NoCommand
    /\ stdout = <<>>
    /\ cmdErr = Nil
    /\ op = "get"
    /\ query \in Queries
    /\ \E m \in 1..MaxConc, continue \in BOOLEAN :
         config = [DefaultConfig EXCEPT !.MaxConcurrency = m, !.ContinueOnError = continue]
    /\ \E n \in 0..MaxFlagClusters :
         /\ clusters = Prefix(n)
         /\ \E st \in [Names(Prefix(n)) -> ClusterStates] :
              /\ mappings = MappingsFor(Prefix(n), st)
              /\ mappingFile = [status |-> "ok",
                                 clusters |-> Marshal(MappingsFor(Prefix(n), st))]
              /\ remote = [c \in {ContextOf(x) : x \in {y \in Names(Prefix(n)) : st[y] # "unmapped"}}
                             |-> st[Tail(c)]]
    /\ ctxAtCall \in BOOLEAN
    /\ ctxCancelled = ctxAtCall
    /\ getPc = "called"
    /\ results = NewAggregatedResults(<<>>)
    /\ getErr = Nil
    /\ resultChan = <<>>
    /\ chanClosed = FALSE
    /\ sem = 0
    /\ wg = 0
    /\ pc = <<>>
    /\ deadline = <<>>
    /\ wres = <<>>
    /\ invoked = <<>>

SpecFlag == InitFlag /\ [][Next]_vars

-----------------------------------------------------------------------------
\* SpecLive: a round under fair scheduling.  A goroutine that can take its
\* next step takes it: the runtime schedules every runnable goroutine, and the
\* per-cluster operation returns (with a result, an error, or the context
\* error once its deadline passed).  Nothing obliges a deadline to pass.

MaxLiveClusters == 3

InitLive ==
    /\ Init
    /\ Len(clusters) <= MaxLiveClusters
    /\ query.resource = "pods"
    /\ \A c \in DOMAIN remote : remote[c] # "noconfig"

\* Weak fairness of GetSpawn, of the steps of each worker's goroutine other
\* than the passing of its deadline, of the closer and of the collector.
Fairness ==
    /\ WF_vars(GetSpawn)
    /\ \A i \in 1..MaxLiveClusters :
         WF_vars(i \in Workers /\ (Acquire(i) \/ QueryReturn(i) \/ Send(i)
                                      \/ Release(i) \/ Done(i)))
    /\ WF_vars(CloseChan)
    /\ WF_vars(Collect)
    /\ WF_vars(GetReturn)

SpecLive == InitLive /\ [][Next]_vars /\ Fairness

\* ------------------------------------------------------------------ claims

Returned == getPc = "returned"

\* The clusters of the round by worker: name, and how the cluster stands.
NameOf(i) == clusters[i].Name

StateOf(i) ==
    LET got == GetContext(mappings, NameOf(i))
    IN  IF got.err # Nil THEN "unmapped" ELSE remote[got.context]

\* The entries of Results that carry cluster name n.
ResultsOf(n) == {j \in DOMAIN results.Results : results.Results[j].ClusterName = n}

FailedWithError(r) == ~r.Success /\ r.Error # Nil

\* Workers that hold a semaphore slot.
InFlight == {i \in Workers : pc[i] \in {"querying", "finished", "sent"}}

\* C1: when Get returns, len(Results) == Summary.Total == len(clusters), also
\* for no clusters, a context done at the call, and rounds where all fail.
C1_ResultsMatchTotal ==
    Returned =>
        /\ Len(results.Results) = results.Summary.Total
        /\ results.Summary.Total = Len(clusters)

C1_Witness ==
    /\ Returned
    /\ Len(clusters) = MaxClusters
    /\ ctxAtCall
    /\ results.Summary.Successful = 0
    /\ Len(results.Results) = MaxClusters

\* C2: when Get returns, Successful + Failed == Total and len(Errors) is the
\* number of failed results that carry an error.
C2_SummaryAddsUp ==
    Returned =>
        /\ results.Summary.Successful + results.Summary.Failed = results.Summary.Total
        /\ Cardinality(DOMAIN results.Summary.Errors)
             = Cardinality({j \in DOMAIN results.Results :
                              FailedWithError(results.Results[j])})

C2_Witness ==
    /\ Returned
    /\ results.Summary.Successful >= 1
    /\ results.Summary.Failed >= 2
    /\ Cardinality(DOMAIN results.Summary.Errors) = 2

\* C3: at every moment of a round at most MaxConcurrency workers hold a slot
\* and run their per-cluster operation.
C3_ConcurrencyBound ==
    /\ Cardinality(InFlight) <= config.MaxConcurrency
    /\ sem = Cardinality(InFlight)

C3_Witness ==
    /\ Len(clusters) > config.MaxConcurrency
    /\ Cardinality(InFlight) = config.MaxConcurrency
    /\ config.MaxConcurrency = MaxConc
    /\ \E i \in Workers : pc[i] = "spawned"
    /\ \A i \in InFlight : pc[i] = "querying"

\* C4: Get returns only after every submitted cluster has contributed exactly
\* one ClusterResult: no cluster is missing, pending or counted twice.
C4_OneResultPerCluster ==
    Returned =>
        /\ \A i \in DOMAIN clusters : Cardinality(ResultsOf(NameOf(i))) = 1
        /\ \A j \in DOMAIN results.Results :
             \E i \in DOMAIN clusters : results.Results[j].ClusterName = NameOf(i)
        /\ \A i \in Workers : pc[i] = "done" /\ results.Results[CHOOSE j \in ResultsOf(NameOf(i)) : TRUE] = wres[i]
        /\ resultChan = <<>>

C4_Witness ==
    /\ Returned
    /\ Len(clusters) = MaxClusters
    /\ results.Results[1].ClusterName = NameOf(MaxClusters)
    /\ results.Results[1].Success

\* What worker i's cluster yields when nothing cuts its query short.
OwnOutcome(i) ==
    LET p == Prepare(mappings, remote, query, clusters[i])
    IN  IF p.query THEN QueryResult(p.result, query, StateOf(i), FALSE) ELSE p.result

HasResult(i) == pc[i] \in {"finished", "sent", "released", "done"}

\* C5: a failure or timeout of one cluster's operation touches that cluster's
\* result only: a worker whose own deadline did not pass (the caller's context
\* being live) gets what its cluster yields, whatever its siblings did, and the
\* round returns with a result for every cluster.
C5_NoFailFast ==
    /\ \A i \in Workers :
         (HasResult(i) /\ ~ctxAtCall /\ ~deadline[i]) => wres[i] = OwnOutcome(i)
    /\ \A i \in Workers :
         (HasResult(i) /\ deadline[i]) => FailedWithError(wres[i])
    /\ ~ctxAtCall => ~ctxCancelled
    /\ Returned => \A i \in DOMAIN clusters : ResultsOf(NameOf(i)) # {}

C5_Witness ==
    /\ Returned
    /\ \E i, j, k \in Workers :
         /\ deadline[i]
         /\ wres[i].Error = ErrListCtx
         /\ ~deadline[j] /\ wres[j].Success /\ wres[j].Items # <<>>
         /\ ~deadline[k] /\ wres[k].Error = ErrList

ContextErrors == {ErrGetCtx, ErrListCtx}

\* C6 (as amended): called with a context that is already done, Get returns
\* no error and one failed result with an error per cluster; the error is the
\* query's context error for a cluster whose mapping, clients and resource type
\* resolve, and the error of that earlier step otherwise.
C6_CancelledAtCall ==
    (Returned /\ ctxAtCall) =>
        /\ getErr = Nil
        /\ Len(results.Results) = Len(clusters)
        /\ results.Summary.Successful = 0
        /\ \A j \in DOMAIN results.Results : FailedWithError(results.Results[j])
        /\ \A i \in Workers :
             /\ wres[i].Error \in ContextErrors
                  <=> Prepare(mappings, remote, query, clusters[i]).query
             /\ ~Prepare(mappings, remote, query, clusters[i]).query
                  => wres[i] = Prepare(mappings, remote, query, clusters[i]).result

C6_Witness ==
    /\ Returned
    /\ ctxAtCall
    /\ Len(clusters) = MaxClusters
    /\ \E i, j \in Workers :
         /\ wres[i].Error \in ContextErrors
         /\ StateOf(i) = "ok"
         /\ wres[j].Error = ErrUnmapped

\* C6 as stated: every result is failed because of the cancellation.
C6_Original ==
    (Returned /\ ctxAtCall) =>
        /\ getErr = Nil
        /\ Len(results.Results) = Len(clusters)
        /\ \A j \in DOMAIN results.Results :
             /\ FailedWithError(results.Results[j])
             /\ results.Results[j].Error \in ContextErrors

\* A cause of failure of worker i's cluster.
Faulty(i) ==
    \/ StateOf(i) \in {"unmapped", "noconfig", "err"}
    \/ resolveGVR(query.resource).err # Nil
    \/ deadline[i]
    \/ ctxAtCall

\* C7: Get never returns an error; every per-cluster failure (unmapped
\* cluster, client creation, unknown resource type, query error, timeout) is a
\* failed ClusterResult in the returned AggregatedResults.
C7_FailuresCaptured ==
    Returned =>
        /\ getErr = Nil
        /\ \A i \in Workers :
             Faulty(i) =>
                \E j \in ResultsOf(NameOf(i)) : FailedWithError(results.Results[j])

C7_Witness ==
    /\ Returned
    /\ getErr = Nil
    /\ \E i, j, k \in Workers :
         /\ wres[i].Error = ErrUnmapped
         /\ wres[j].Error = ErrDynamicClient
         /\ wres[k].Error = ErrListCtx /\ deadline[k]

\* C8: for a cluster without a mapping the worker yields a failed result with
\* an error and no items, and no client is created and no Get/List is issued
\* for that cluster.
C8_UnmappedNeverQueried ==
    \A i \in Workers :
        StateOf(i) = "unmapped" =>
            /\ invoked[i] = {}
            /\ pc[i] # "querying"
            /\ HasResult(i) =>
                 /\ FailedWithError(wres[i])
                 /\ wres[i].Items = <<>>
                 /\ wres[i].ClusterName = NameOf(i)
            /\ Returned =>
                 \A j \in ResultsOf(NameOf(i)) :
                    FailedWithError(results.Results[j]) /\ results.Results[j].Items = <<>>

C8_Witness ==
    /\ Returned
    /\ \E i, j \in Workers :
         /\ StateOf(i) = "unmapped" /\ results.Summary.Errors[NameOf(i)] = ErrUnmapped
         /\ "List" \in invoked[j]

\* ----------------------------------------------------- claims on the commands

\* The command has run a round and exited.
Exited(kind) == op = kind /\ cmdPc = "exit" /\ getPc = "returned"

EveryTargetFailed ==
    results.Summary.Total > 0 /\ results.Summary.Failed = results.Summary.Total

\* The error lists written to stderr.
ErrorListsShown ==
    {stderr[k] : k \in {j \in DOMAIN stderr : stderr[j].kind = "errors"}}

\* The error of every failed cluster of the round, one line per cluster.
FailedClusterErrors ==
    {[cluster |-> results.Results[k].ClusterName, error |-> results.Results[k].Error] :
        k \in {j \in DOMAIN results.Results : ~results.Results[j].Success}}

\* The rows of the table on stdout.
RowsShown ==
    {[cluster |-> stdout[k].cluster, namespace |-> stdout[k].namespace,
      name |-> stdout[k].name] :
        k \in {j \in DOMAIN stdout : stdout[j].kind = "row"}}

\* The items of the successful clusters of the round.
SuccessfulItems ==
    UNION {{[cluster |-> results.Results[k].ClusterName,
             namespace |-> results.Results[k].Items[m].namespace,
             name |-> results.Results[k].Items[m].name] :
                m \in DOMAIN results.Results[k].Items} :
           k \in {j \in DOMAIN results.Results : results.Results[j].Success}}

C9_PartialWitness ==
    /\ Exited("get")
    /\ results.Summary.Failed = 1
    /\ results.Summary.Successful = 1
    /\ RowsShown # {}

\* C10: a describe command that ran its round reports the round as failed
\* and enumerates every cluster's error when every targeted cluster failed,
\* and displays no cluster's error when at least one cluster succeeded.
C10_DescribeErrorsEnumerated ==
    Exited("describe") =>
        /\ EveryTargetFailed =>
              /\ exitCode # 0
              /\ ErrorListsShown = {[kind |-> "errors", lines |-> FailedClusterErrors]}
        /\ results.Summary.Successful > 0 =>
              /\ exitCode = 0
              /\ ErrorListsShown = {}

\* What the describe command does: the round is reported as failed, by the
\* aggregator's error, and no cluster's error is ever listed.
C10_DescribeNeverListsErrors ==
    Exited("describe") =>
        /\ ErrorListsShown = {}
        /\ EveryTargetFailed <=> cmdErr = ErrAggregate
        /\ EveryTargetFailed <=> exitCode # 0

C10_AllFailedReached ==
    /\ Exited("describe")
    /\ results.Summary.Total = 2
    /\ results.Summary.Failed = 2
    /\ exitCode = 1

\* -------------------------------------------------- claims on the aggregators

\* An aggregator has been applied to the results.
Aggregated(kind) == op = kind /\ cmdPc = "agg-done"

\* The rows of the table on stdout, in the order printed.
RowSeq == SelectSeq(stdout, LAMBDA e : e.kind = "row")

\* Row x comes strictly before row y by (cluster, namespace, name).
RowKeyLess(x, y) ==
    \/ StrLess(x.cluster, y.cluster)
    \/ x.cluster = y.cluster /\ StrLess(x.namespace, y.namespace)
    \/ x.cluster = y.cluster /\ x.namespace = y.namespace /\ StrLess(x.name, y.name)

\* The orders in which n results can complete.
Orders(n) == {f \in [1..n -> 1..n] : \A i, j \in 1..n : i # j => f[i] # f[j]}

\* The same results, completed in order f.
Reordered(ar, f) == [ar EXCEPT !.Results = [i \in DOMAIN ar.Results |-> ar.Results[f[i]]]]

C12_OnlySuccessfulItems ==
    Aggregated("get") =>
        /\ RowsShown = SuccessfulItems
        /\ Len(RowSeq) = Cardinality(SuccessfulItems)
        /\ \A k \in DOMAIN RowSeq, j \in DOMAIN results.Results :
             RowSeq[k].cluster = results.Results[j].ClusterName
                => results.Results[j].Success

\* A failed result that still carries items stands beside a successful one.
C12_Witness ==
    /\ Aggregated("get")
    /\ RowsShown # {}
    /\ \E j \in DOMAIN results.Results :
         ~results.Results[j].Success /\ results.Results[j].Items # <<>>

\* C13: when the successful results contribute no item, AggregateGetResults
\* writes the one notice "No resources found", no header and no row, and
\* returns no error.
C13_EmptyNotice ==
    (Aggregated("get") /\ SuccessfulItems = {}) =>
        /\ stdout = <<Notice>>
        /\ cmdErr = Nil

\* Every cluster failed, one of them with data in its result.
C13_Witness ==
    /\ Aggregated("get")
    /\ results.Summary.Total = 2
    /\ results.Summary.Failed = 2
    /\ \E j \in DOMAIN results.Results : results.Results[j].Items # <<>>
    /\ stdout = <<Notice>>

\* The names in the "CLUSTER: <name>" headers on stdout, in the order printed.
HeaderSeq == SelectSeq(stdout, LAMBDA e : e.kind = "cluster")

\* The results AggregateDescribeResults has something to print for.
Printable == {j \in DOMAIN results.Results :
                 results.Results[j].Success /\ results.Results[j].Output # <<>>}

Separators == {k \in DOMAIN stdout : stdout[k].kind = "separator"}

\* C14: the "CLUSTER: <name>" blocks AggregateDescribeResults prints are
\* exactly the clusters whose result is successful with non-empty output, each
\* with its own output, in ascending order of cluster name whatever the order
\* of Results; one separator rule stands between every two consecutive blocks
\* and none before the first block or after the last.
C14_DescribeBlocks ==
    Aggregated("describe") =>
        /\ {HeaderSeq[k].cluster : k \in DOMAIN HeaderSeq}
              = {results.Results[j].ClusterName : j \in Printable}
        /\ Len(HeaderSeq) = Cardinality(Printable)
        /\ \A k \in 1..(Len(HeaderSeq) - 1) :
              StrLess(HeaderSeq[k].cluster, HeaderSeq[k + 1].cluster)
        /\ \A k \in DOMAIN stdout :
              stdout[k].kind = "cluster" =>
                 /\ k + 2 <= Len(stdout)
                 /\ stdout[k + 1].kind = "underline"
                 /\ stdout[k + 2].kind = "output"
                 /\ \E j \in Printable :
                       /\ results.Results[j].ClusterName = stdout[k].cluster
                       /\ results.Results[j].Output = stdout[k + 2].text
                 /\ k > 1 => stdout[k - 1].kind = "separator"
        /\ \A k \in Separators :
              /\ 1 < k /\ k < Len(stdout)
              /\ stdout[k - 1].kind = "output"
              /\ stdout[k + 1].kind = "cluster"
        /\ Len(HeaderSeq) > 0 => Cardinality(Separators) = Len(HeaderSeq) - 1
        /\ \A f \in Orders(Len(results.Results)) :
              AggregateDescribeResults(Reordered(results, f), query.resource).out = stdout

\* Results arrived in descending name order: two to print, one failed between.
C14_Witness ==
    /\ Aggregated("describe")
    /\ Len(results.Results) = 3
    /\ Len(HeaderSeq) = 2
    /\ Cardinality(Separators) = 1
    /\ ~results.Results[2].Success
    /\ StrLess(results.Results[3].ClusterName, results.Results[1].ClusterName)

\* C15: on results built by AddResult, AggregateDescribeResults returns an
\* error if and only if at least one cluster was targeted and every cluster
\* failed; with a successful cluster, with or without output, or with no
\* cluster targeted, it returns no error.
C15_DescribeError ==
    Aggregated("describe") =>
        /\ cmdErr # Nil <=> EveryTargetFailed
        /\ results.Summary.Successful > 0 => cmdErr = Nil
        /\ results.Summary.Total = 0 => cmdErr = Nil

\* The only success has no output, beside a failure: nothing printed, no error.
C15_Witness ==
    /\ Aggregated("describe")
    /\ results.Summary.Successful = 1
    /\ results.Summary.Failed = 1
    /\ Printable = {}
    /\ cmdErr = Nil
    /\ stdout = <<Notice>>

\* ------------------------------------------- claims on the cluster selector

\* Shell-glob patterns by their grammar. A pattern is a sequence of elements:
\* a star, a question mark, a class [...] or [^...] of characters and ranges
\* lo-hi, an escaped character, or a plain character.

\* One character of a class at the front of c, as [ok, ch, rest]: a bare "-"
\* or "]" is none, a backslash quotes the next one, and the class goes on
\* after it.
ClassChar(c) ==
    IF c = <<>> \/ Head(c) \in {"-", "]"} THEN [ok |-> FALSE, ch |-> "", rest |-> <<>>]
    ELSE LET q == IF Head(c) = "\\" THEN Tail(c) ELSE c
         IN  IF q = <<>> \/ Tail(q) = <<>> THEN [ok |-> FALSE, ch |-> "", rest |-> <<>>]
             ELSE [ok |-> TRUE, ch |-> Head(q), rest |-> Tail(q)]

\* The ranges of a class up to its "]", as [ok, ranges, rest].
RECURSIVE ClassBody(_, _)
ClassBody(c, ranges) ==
    IF c # <<>> /\ Head(c) = "]" /\ ranges # <<>>
    THEN [ok |-> TRUE, ranges |-> ranges, rest |-> Tail(c)]
    ELSE LET lo == ClassChar(c)
             hi == IF lo.ok /\ Head(lo.rest) = "-" THEN ClassChar(Tail(lo.rest)) ELSE lo
         IN  IF ~lo.ok \/ ~hi.ok THEN [ok |-> FALSE, ranges |-> <<>>, rest |-> <<>>]
             ELSE ClassBody(hi.rest, Append(ranges, [lo |-> lo.ch, hi |-> hi.ch]))

\* The elements of pattern p, as [ok, elems]; ok is false for a malformed one.
RECURSIVE GlobElems(_)
GlobElems(p) ==
    IF p = <<>> THEN [ok |-> TRUE, elems |-> <<>>]
    ELSE IF Head(p) = "["
    THEN LET neg == Tail(p) # <<>> /\ Head(Tail(p)) = "^"
             body == ClassBody(IF neg THEN Tail(Tail(p)) ELSE Tail(p), <<>>)
             more == GlobElems(body.rest)
         IN  IF ~body.ok \/ ~more.ok THEN [ok |-> FALSE, elems |-> <<>>]
             ELSE [ok |-> TRUE,
                   elems |-> <<[t |-> "class", neg |-> neg, ranges |-> body.ranges]>>
                                \o more.elems]
    ELSE IF Head(p) = "\\"
    THEN IF Tail(p) = <<>> THEN [ok |-> FALSE, elems |-> <<>>]
         ELSE LET more == GlobElems(Tail(Tail(p)))
              IN  IF ~more.ok THEN [ok |-> FALSE, elems |-> <<>>]
                  ELSE [ok |-> TRUE,
                        elems |-> <<[t |-> "char", ch |-> Head(Tail(p))]>> \o more.elems]
    ELSE LET more == GlobElems(Tail(p))
             e == IF Head(p) = "*" THEN [t |-> "star"]
                  ELSE IF Head(p) = "?" THEN [t |-> "any"]
                  ELSE [t |-> "char", ch |-> Head(p)]
         IN  IF ~more.ok THEN [ok |-> FALSE, elems |-> <<>>]
             ELSE [ok |-> TRUE, elems |-> <<e>> \o more.elems]

\* Element e stands for the one character ch.
ElemTakes(e, ch) ==
    IF e.t = "any" THEN TRUE
    ELSE IF e.t = "char" THEN e.ch = ch
    ELSE (\E k \in DOMAIN e.ranges :
             /\ CharCode(e.ranges[k].lo) <= CharCode(ch)
             /\ CharCode(ch) <= CharCode(e.ranges[k].hi)) # e.neg

\* The elements stand for the string s: a star for any run of characters,
\* every other element for one character.
RECURSIVE ElemsTake(_, _)
ElemsTake(elems, s) ==
    IF elems = <<>> THEN s = <<>>
    ELSE IF Head(elems).t = "star"
    THEN \E i \in 0..Len(s) : ElemsTake(Tail(elems), SubSeq(s, i + 1, Len(s)))
    ELSE s # <<>> /\ ElemTakes(Head(elems), Head(s)) /\ ElemsTake(Tail(elems), Tail(s))

WellFormed(p) == GlobElems(p).ok

\* Pattern p glob-matches name; a malformed pattern matches nothing.
GlobMatches(p, name) == WellFormed(p) /\ ElemsTake(GlobElems(p).elems, name)

\* Some pattern equals the name or glob-matches it.
Selects(patterns, name) ==
    \E k \in DOMAIN patterns : patterns[k] = name \/ GlobMatches(patterns[k], name)

\* The clusters of cs the flags keep, in the order of cs.
Kept(cs, inc, exc) ==
    SelectSeq(cs, LAMBDA c : ~Selects(exc, c.Name) /\ (inc = <<>> \/ Selects(inc, c.Name)))

\* C16: filterClusters returns exactly the clusters of its input, in input
\* order, whose name matches no exclude pattern and, when there are include
\* patterns, matches one of them; exclusion wins over inclusion; with no
\* pattern at all the result is the input.
C16_FilterSemantics ==
    cmdPc = "filtered" =>
        /\ clusters = Kept(discovered, include, exclude)
        /\ \A k \in DOMAIN clusters : ~Selects(exclude, clusters[k].Name)
        /\ (include = <<>> /\ exclude = <<>>) => clusters = discovered

\* Of two clusters that both match an include pattern, the first is excluded
\* and the second kept.
C16_Witness ==
    /\ cmdPc = "filtered"
    /\ Len(discovered) = 2
    /\ Selects(include, discovered[1].Name)
    /\ Selects(exclude, discovered[1].Name)
    /\ Selects(include, discovered[2].Name)
    /\ clusters = <<discovered[2]>>

\* C17: filtering the result of filterClusters again with the same patterns
\* changes nothing.
C17_FilterIdempotent ==
    cmdPc = "refiltered" => ret = clusters

\* A selection that dropped a cluster and kept one is filtered again.
C17_Witness ==
    /\ cmdPc = "refiltered"
    /\ Len(discovered) = 2
    /\ Len(clusters) = 1
    /\ include # <<>>
    /\ exclude # <<>>
    /\ ret = clusters

\* The name matchesAny was asked about.
AskedName == discovered[1].Name

\* Pattern p has none of the characters of the glob syntax: no wildcard and
\* no escape.
Plain(p) == \A k \in DOMAIN p : p[k] \notin {"*", "?", "[", "\\"}

\* Pattern p has none of the wildcard characters * ? [
NoWildcard(p) == \A k \in DOMAIN p : p[k] \notin {"*", "?", "["}

\* C18 (as amended): matchesAny is true exactly when some pattern equals the
\* name or glob-matches it (* any run of characters, ? one character, [...] a
\* class, \c the character c); a pattern with no wildcard and no backslash
\* matches only the identical string; a malformed pattern matches no name
\* other than itself, and matchesAny returns a boolean for it all the same.
C18_MatchesAny ==
    cmdPc = "matched" =>
        /\ ret \in BOOLEAN
        /\ ret <=> Selects(include, AskedName)
        /\ \A k \in DOMAIN include :
             /\ (Plain(include[k]) /\ matchesAny(AskedName, <<include[k]>>))
                   => include[k] = AskedName
             /\ (~WellFormed(include[k]) /\ include[k] # AskedName)
                   => ~matchesAny(AskedName, <<include[k]>>)

\* A class with a range matched the name, after a malformed pattern did not.
C18_Witness ==
    /\ cmdPc = "matched"
    /\ include = << <<"[">>, <<"[", "a", "-", "b", "]">> >>
    /\ AskedName = <<"b">>
    /\ ret = TRUE

\* C18 as stated: a pattern without a wildcard character matches only the
\* identical string.
C18_Original ==
    cmdPc = "matched" =>
        /\ ret <=> Selects(include, AskedName)
        /\ \A k \in DOMAIN include :
             (NoWildcard(include[k]) /\ matchesAny(AskedName, <<include[k]>>))
                => include[k] = AskedName

\* ---------------------------------------------- claims on the mapping Manager

\* GetContext has just returned for a name SetMapping was last called for
\* with success.
AskedAfterSuccess ==
    /\ ret.op = "GetContext"
    /\ ret.name \in MgrNames
    /\ hist.last[ret.name].called
    /\ hist.last[ret.name].ok

\* GetContext has just returned for a name SetMapping was never called for.
AskedNeverMapped ==
    /\ ret.op = "GetContext"
    /\ ret.name \in MgrNames => ~hist.last[ret.name].called

\* C19: after a SetMapping(n, c, ns) that returned success, GetContext(n)
\* returns c, on the same Manager and on every Manager created afterwards for
\* the same path, until the next SetMapping for n; GetContext of a name that
\* was never mapped returns an error.
C19_MappingVisible ==
    /\ AskedAfterSuccess =>
          /\ ret.err = Nil
          /\ ret.context = hist.last[ret.name].context
    /\ AskedNeverMapped => ret.err # Nil

\* What holds: the mapping is returned as long as no later write has damaged
\* the file.
C19_VisibleWhileFileIntact ==
    /\ (AskedAfterSuccess /\ hist.last[ret.name].intact) =>
          /\ ret.err = Nil
          /\ ret.context = hist.last[ret.name].context
    /\ AskedNeverMapped => ret.err # Nil

\* A Manager created after the successful call is asked for the name.
C19_Witness ==
    /\ AskedAfterSuccess
    /\ ~hist.mine[ret.name].called
    /\ hist.last[ret.name].intact
    /\ ret.context = hist.last[ret.name].context

\* The entries of ListMappings for cluster name n.
EntriesFor(n) == {i \in DOMAIN ListMappings(mappings) : ListMappings(mappings)[i].Name = n}

\* C20: on a Manager that started from an empty mapping file, after any
\* SetMapping calls ListMappings holds one entry for every name a call was
\* made for and none for any other, each with the context and namespace of
\* the last call for its name; a call that repeats the arguments of the last
\* one for its name leaves the mappings as they were.
C20_UpsertByName ==
    (cmdPc = "manager" /\ hist.fromEmpty) =>
        /\ \A n \in MgrNames :
             IF ~hist.mine[n].called THEN EntriesFor(n) = {}
             ELSE /\ Cardinality(EntriesFor(n)) = 1
                  /\ \A i \in EntriesFor(n) :
                       /\ ListMappings(mappings)[i].Context = hist.mine[n].context
                       /\ ListMappings(mappings)[i].Namespace = hist.mine[n].namespace
        /\ \A i \in DOMAIN ListMappings(mappings) : ListMappings(mappings)[i].Name \in MgrNames
        /\ (/\ ret.op = "SetMapping"
            /\ \E i \in DOMAIN ret.before :
                  ret.before[i] = ClusterMapping(ret.name, ret.context, ret.namespace))
              => ListMappings(mappings) = ret.before

\* The first of two mappings has just been overwritten with a new context.
C20_Witness ==
    /\ cmdPc = "manager"
    /\ hist.fromEmpty
    /\ ret.op = "SetMapping"
    /\ Len(ret.before) = 2
    /\ ret.before[1].Name = ret.name
    /\ ret.before[1].Context # ret.context
    /\ Len(ListMappings(mappings)) = 2

\* The mappings a Manager created now for the path would hold.
StoredMappings == load(mappingFile).clusters

\* C21: after every SetMapping call, successful or not, the mappings the
\* Manager resolves and lists are those stored in the config file; a call
\* that returns an error leaves the mappings the Manager resolves unchanged.
C21_NoInMemoryOnlyState ==
    ret.op = "SetMapping" =>
        /\ ListMappings(mappings) = StoredMappings
        /\ \A n \in MgrNames \cup {NeverMapped} :
              GetContext(mappings, n) = GetContext(StoredMappings, n)
        /\ ret.err # Nil => ListMappings(mappings) = ret.before

\* What holds: a call that returns success leaves the file and the Manager
\* with the same mappings.
C21_SavedWhenSuccessful ==
    (ret.op = "SetMapping" /\ ret.err = Nil) =>
        /\ ListMappings(mappings) = StoredMappings
        /\ mappingFile.status = "ok"

\* A SetMapping for a new name has returned an error with the file as it was.
C21_Witness ==
    /\ ret.op = "SetMapping"
    /\ ret.err # Nil
    /\ Len(ret.before) = 1
    /\ ret.before[1].Name # ret.name
    /\ StoredMappings = ret.before

\* The goroutines whose call is a SetMapping.
Setters == {g \in 1..MaxCallers : wres[g].op = "SetMapping"}

RECURSIVE SerialFrom(_, _)
\* The mappings after the SetMapping calls of the goroutines S, one whole call
\* after the other, in every order.
SerialFrom(ms, S) ==
    IF S = {} THEN {ms}
    ELSE UNION { SerialFrom(SetMapping(ms, wres[g].name, wres[g].context,
                                       wres[g].namespace), S \ {g}) : g \in S }

\* The states some serial order of some of the SetMapping calls produces.
SerialStates == UNION { SerialFrom(hist.init, S) : S \in SUBSET Setters }

\* C22: for any interleaving of concurrent GetContext, ListMappings and
\* SetMapping calls on one Manager, each call observes a state that some
\* serial order of the SetMapping calls produces, and once every call has
\* returned the Manager and the file hold what a serial order of all the
\* SetMapping calls produces: no update is lost or torn.
C22_ThreadSafe ==
    /\ \A g \in 1..MaxCallers :
         /\ (pc[g] = "returned" /\ wres[g].op = "GetContext") =>
               \E ms \in SerialStates :
                   /\ ret[g].context = GetContext(ms, wres[g].name).context
                   /\ ret[g].err = GetContext(ms, wres[g].name).err
         /\ (pc[g] = "returned" /\ wres[g].op = "ListMappings") =>
               ret[g].list \in SerialStates
    /\ (\A g \in 1..MaxCallers : pc[g] = "returned") =>
         /\ ListMappings(mappings) \in SerialFrom(hist.init, Setters)
         /\ Setters # {} => load(mappingFile).clusters \in SerialFrom(hist.init, Setters)

\* What holds: calls that only read, as the workers of a round make them,
\* return what the Manager was loaded with.
C22_ReadersAgree ==
    Setters = {} =>
        \A g \in 1..MaxCallers :
            /\ (pc[g] = "returned" /\ wres[g].op = "GetContext") =>
                  ret[g].context = GetContext(hist.init, wres[g].name).context
            /\ (pc[g] = "returned" /\ wres[g].op = "ListMappings") =>
                  ret[g].list = hist.init

\* Two SetMapping calls for different new names have both returned nil and
\* the Manager lists one mapping.
C22_Witness ==
    /\ \A g \in 1..MaxCallers : pc[g] = "returned" /\ wres[g].op = "SetMapping" /\ ret[g].err = Nil
    /\ wres[1].name # wres[2].name
    /\ hist.init = <<>>
    /\ Len(mappings) = 1

\* A record every field of which is absent or of the expected type.
WellFormedRecord(r) ==
    /\ r.displayName.kind \in {"absent", "string"}
    /\ r.version.kind \in {"absent", "string"}
    /\ r.conditions.kind \in {"absent", "slice"}
    /\ r.conditions.kind = "slice" =>
          \A i \in DOMAIN r.conditions.val : r.conditions.val[i].kind = "map"

\* The names of the records that are well formed, in the order of the list.
WellFormedNames == SelectSeq([i \in DOMAIN hubClusters |->
                                 IF WellFormedRecord(hubClusters[i])
                                 THEN hubClusters[i].name ELSE <<>>],
                             LAMBDA n : n # <<>>)

ListedNames == [i \in DOMAIN ret.clusters |-> ret.clusters[i].Name]

\* C23, as stated: for any returned record list ListClusters returns no
\* error, omits each malformed record and returns one ClusterInfo for every
\* well-formed record.
C23_MalformedOmitted ==
    (ret.op = "ListClusters" /\ ret.listed) =>
        /\ ret.err = Nil
        /\ ListedNames = WellFormedNames

\* C23, as the code has it: for any returned record list ListClusters returns
\* no error and one ClusterInfo for every record, in the order of the list;
\* the display name is the record's when it is a string and the name
\* otherwise, and the cluster is healthy exactly when the conditions are a
\* list holding a ControlPlaneHealthy condition with status True.
C23_EveryRecordListed ==
    (ret.op = "ListClusters" /\ ret.listed) =>
        /\ ret.err = Nil
        /\ Len(ret.clusters) = Len(hubClusters)
        /\ \A i \in DOMAIN hubClusters :
             LET r == hubClusters[i]
                 c == ret.clusters[i]
             IN  /\ c.Name = r.name
                 /\ c.DisplayName = IF r.displayName.kind = "string"
                                    THEN r.displayName.val ELSE r.name
                 /\ c.KubernetesVersion = IF r.version.kind = "string"
                                          THEN r.version.val ELSE <<>>
                 /\ c.Healthy <=>
                       /\ r.conditions.kind = "slice"
                       /\ \E k \in DOMAIN r.conditions.val :
                             r.conditions.val[k] = Condition("map", "ControlPlaneHealthy", "True")

\* A list of a well-formed record and one with fields of the wrong type has
\* been listed.
C23_Witness ==
    /\ ret.op = "ListClusters"
    /\ ret.listed
    /\ Len(hubClusters) = 2
    /\ WellFormedRecord(hubClusters[1])
    /\ hubClusters[2].displayName.kind = "other"
    /\ hubClusters[2].conditions.kind = "other"
    /\ Len(ret.clusters) = 2

\* C24: when cluster discovery fails, the get and describe commands return
\* the error before any fan-out begins: no mapping is loaded, no cluster is
\* selected, no per-cluster operation is dispatched and nothing is written to
\* the output in that invocation.
C24_DiscoveryFailureStopsCommand ==
    cmdErr = ErrDiscover =>
        /\ cmdPc = "exit"
        /\ exitCode = 1
        /\ mappings = <<>>
        /\ discovered = <<>>
        /\ clusters = <<>>
        /\ getPc = "idle"
        /\ pc = <<>>
        /\ invoked = <<>>
        /\ results = NewAggregatedResults(<<>>)
        /\ stdout = <<>>
        /\ stderr = <<[kind |-> "error", text |-> ErrDiscover]>>

\* Discovery has failed for a command whose hub holds clusters and whose
\* mapping file holds mappings.
C24_Witness ==
    /\ cmdPc = "exit"
    /\ cmdErr = ErrDiscover
    /\ hubClusters # <<>>
    /\ mappingFile.status = "ok"
    /\ mappingFile.clusters # <<>>

\* Workers whose result has been sent on the result channel.
Arrived == {i \in Workers : pc[i] \in {"sent", "released", "done"}}

CountWhere(rs, success) == Cardinality({j \in DOMAIN rs : rs[j].Success = success})

\* C25: in every state of a round, mid-round included,
\* Successful + Failed == len(Results) <= Total with Total the number of
\* clusters from initialization on; Successful and Failed are the numbers of
\* successful and failed results collected, and every result sent is either
\* in the channel or collected once: none is lost or counted twice.
C25_CountersTrackResults ==
    getPc \in {"collecting", "returned"} =>
        /\ results.Summary.Successful + results.Summary.Failed = Len(results.Results)
        /\ Len(results.Results) <= results.Summary.Total
        /\ results.Summary.Total = Len(clusters)
        /\ results.Summary.Successful = CountWhere(results.Results, TRUE)
        /\ results.Summary.Failed = CountWhere(results.Results, FALSE)
        /\ Len(results.Results) + Len(resultChan) = Cardinality(Arrived)
        /\ \A i \in Arrived :
             Cardinality({j \in DOMAIN results.Results : results.Results[j] = wres[i]})
               + Cardinality({j \in DOMAIN resultChan : resultChan[j] = wres[i]}) = 1

\* Mid-round: a success and a failure are collected, a result waits in the
\* channel and a worker has yet to start.
C25_Witness ==
    /\ getPc = "collecting"
    /\ results.Summary.Successful = 1
    /\ results.Summary.Failed = 1
    /\ results.Summary.Total = 3
    /\ \E i \in Workers : pc[i] \in {"spawned", "querying"}

\* The ClusterResults the executor has produced so far: those the workers
\* hold, those in the channel and those collected.
Produced ==
    {wres[i] : i \in {w \in Workers : HasResult(w)}}
        \cup {resultChan[j] : j \in DOMAIN resultChan}
        \cup {results.Results[j] : j \in DOMAIN results.Results}

\* C26: every ClusterResult the executor produces has Error non-nil exactly
\* when Success is false, and a failed result carries no items.
C26_ErrorIffFailed ==
    \A r \in Produced :
        /\ (r.Error # Nil) <=> ~r.Success
        /\ ~r.Success => r.Items = <<>>

\* A round has returned a success with items, a query error, a timeout and a
\* result that failed before the query.
C26_Witness ==
    /\ Returned
    /\ \E r \in Produced : r.Success /\ r.Items # <<>> /\ r.Error = Nil
    /\ \E r \in Produced : r.Error = ErrList
    /\ \E i \in Workers : deadline[i] /\ wres[i].Error = ErrListCtx
    /\ RemoteItems(clusters[CHOOSE i \in Workers : deadline[i]].Name) # <<>>

\* Workers that have taken a slot and given it back.
Released == {i \in Workers : pc[i] \in {"released", "done"}}

\* C27: the slots held are exactly those of the workers between their acquire
\* and their release, whatever their task ended with; a worker that went
\* through its release holds none, and when Get returns every worker has
\* released and no slot is held.
C27_SlotsReleased ==
    /\ sem = Cardinality(InFlight)
    /\ sem + Cardinality(Released) + Cardinality({i \in Workers : pc[i] = "spawned"})
         = Cardinality(Workers)
    /\ Returned => (sem = 0 /\ Released = Workers)

\* A round of three clusters through one slot has returned after a failed
\* resolution, a query error and a timeout.
C27_Witness ==
    /\ Returned
    /\ config.MaxConcurrency = 1
    /\ sem = 0
    /\ \E i, j, k \in Workers :
         /\ wres[i].Error = ErrUnmapped
         /\ wres[j].Error = ErrList
         /\ deadline[k] /\ wres[k].Error = ErrListCtx

\* The per-cluster outcomes of a round, and the summary they amount to; the
\* configuration is not read.
Outcomes == {wres[i] : i \in Workers}

SummaryOfOutcomes ==
    [Total |-> Len(clusters),
     Successful |-> Cardinality({r \in Outcomes : r.Success}),
     Failed |-> Cardinality({r \in Outcomes : ~r.Success}),
     Errors |-> [n \in {r.ClusterName : r \in {x \in Outcomes : x.Error # Nil}} |->
                   (CHOOSE r \in Outcomes : r.ClusterName = n).Error]]

\* C28: the results and the summary of a round are determined by the
\* clusters and their per-cluster outcomes alone, for either value of
\* ContinueOnError, so two rounds that differ only in the flag return the same
\* set of ClusterResults and the same summary; with the flag false as with it
\* true no worker is cut short by a sibling's failure, Get returns no error
\* and a result for every cluster.
C28_ContinueOnErrorIgnored ==
    /\ \A i \in Workers :
         (HasResult(i) /\ ~ctxAtCall /\ ~deadline[i]) => wres[i] = OwnOutcome(i)
    /\ ~ctxAtCall => ~ctxCancelled
    /\ Returned =>
         /\ getErr = Nil
         /\ Len(results.Results) = Len(clusters)
         /\ {results.Results[j] : j \in DOMAIN results.Results} = Outcomes
         /\ results.Summary = SummaryOfOutcomes

\* A round with ContinueOnError = false has returned a success collected
\* after a failure.
C28_Witness ==
    /\ Returned
    /\ ~config.ContinueOnError
    /\ Len(results.Results) = MaxFlagClusters
    /\ ~results.Results[1].Success
    /\ results.Results[2].Success

\* C29: Executor.Get terminates.  Under fair scheduling every round called
\* returns, for fewer, as many and more clusters than MaxConcurrency; on the
\* way a worker holding its result can always send it (the channel is open
\* and not full), the channel is closed only after every worker has finished,
\* and at the return every worker has acquired and released its slot.
C29_GetTerminates ==
    /\ [](\A i \in Workers :
            pc[i] = "finished" => (~chanClosed /\ Len(resultChan) < Len(clusters)))
    /\ [](chanClosed => \A i \in Workers : pc[i] = "done")
    /\ [](Returned => (resultChan = <<>> /\ \A i \in Workers : pc[i] = "done"))
    /\ (getPc = "called") ~> Returned

\* A round of more clusters than slots has returned.
C29_Witness ==
    /\ Returned
    /\ chanClosed
    /\ config.MaxConcurrency = 1
    /\ Len(clusters) = MaxLiveClusters
    /\ \A i \in Workers : pc[i] = "done"

\* The discovered clusters the flags leave out: those an --exclude pattern
\* selects, and those a non-empty --clusters list does not select.
LeftOut ==
    {discovered[k].Name : k \in {j \in DOMAIN discovered :
        \/ Selects(exclude, discovered[j].Name)
        \/ include # <<>> /\ ~Selects(include, discovered[j].Name)}}

\* The cluster names the command's output mentions: table rows and describe
\* headings on stdout, error lines on stderr.
NamesShown ==
    {stdout[k].cluster : k \in {j \in DOMAIN stdout : stdout[j].kind \in {"row", "cluster"}}}
        \cup UNION {{l.cluster : l \in stderr[k].lines} :
                       k \in {j \in DOMAIN stderr : stderr[j].kind = "errors"}}

\* C30: in the get and describe commands the filter is applied before
\* dispatch: a discovered cluster that is left out is never among the
\* clusters passed to the executor, has no worker and no result, is not
\* counted in Summary.Total and is not mentioned in the output.
C30_FilterBeforeDispatch ==
    /\ \A k \in DOMAIN clusters : clusters[k].Name \notin LeftOut
    /\ cmdPc \in {"round", "exit"} /\ getPc # "idle" =>
          Len(clusters) = Len(discovered) - Cardinality(LeftOut)
    /\ \A i \in Workers : clusters[i].Name \notin LeftOut /\ wres[i].ClusterName \notin LeftOut
    /\ \A k \in DOMAIN resultChan : resultChan[k].ClusterName \notin LeftOut
    /\ \A k \in DOMAIN results.Results : results.Results[k].ClusterName \notin LeftOut
    /\ getPc \in {"collecting", "returned"} =>
          results.Summary.Total = Len(discovered) - Cardinality(LeftOut)
    /\ NamesShown \cap LeftOut = {}

\* A get of two discovered clusters, one of them excluded, has shown the
\* rows of the other one.
C30_Witness ==
    /\ Exited("get")
    /\ Len(discovered) = 2
    /\ Cardinality(LeftOut) = 1
    /\ exclude # <<>>
    /\ results.Summary.Total = 1
    /\ RowsShown # {}
    /\ \E n \in LeftOut : RemoteItems(n) # <<>>

====
